---- MODULE Spec2Model ----
(***************************************************************************)
(* Model of the ETL job engine of the webhook capture service              *)
(* (src/src/lib/etl/etl-engine.ts) together with the callers that create,  *)
(* start and cancel jobs (the ETL route and the admin dispatcher).         *)
(*                                                                         *)
(* JavaScript runs one synchronous stretch of code at a time; an async     *)
(* function gives up control only at an await.  Every action below is one  *)
(* such stretch: from a call or a resumption up to the next await.         *)
(***************************************************************************)
EXTENDS Integers, Sequences, FiniteSets, TLC

(***************************************************************************)
(* Bounds of the model.                                                    *)
(***************************************************************************)
\* number of job ids generateId() hands out
MaxJobs == 1
\* number of executeJob calls that can be suspended at an await at one time
MaxExecs == 2
\* the last reading of the clock
MaxTime == 2

JobIds == 1..MaxJobs

(***************************************************************************)
(* JavaScript values.  Text that is searched with String.includes is a     *)
(* sequence of tokens; atoms (method, ip, ids) are TLA+ strings.  An       *)
(* optional property that is not set is a field missing from the record;   *)
(* where a whole object is optional, Undefined stands for its absence.     *)
(***************************************************************************)
Undefined == [undefined |-> TRUE]

Has(obj, f) == f \in DOMAIN obj

\* an optional argument or property: not defined, or defined with a value
NotDefined == [defined |-> FALSE]
Defined(v) == [defined |-> TRUE, value |-> v]
Optional(obj, f) == IF Has(obj, f) THEN Defined(obj[f]) ELSE NotDefined

\* String.prototype.includes: sub occurs in s as a contiguous run
Includes(s, sub) ==
    \E i \in 0..(Len(s) - Len(sub)) : SubSeq(s, i + 1, i + Len(sub)) = sub

\* Array.prototype.includes
ArrayIncludes(arr, x) == \E i \in 1..Len(arr) : arr[i] = x

\* new Date(s).getTime() of a bound of dateRange: a time (>= 0), or NaN for a
\* malformed date; NaN is kept apart from every time by a value below them
NaN == -1

\* variant: a record at the start bound counts as before it
LessThan_OrEqual(a, b) == IF a = NaN \/ b = NaN THEN FALSE ELSE a <= b

\* requestTime < bound, requestTime > bound: every comparison with NaN is false
LessThan(a, b) == IF a = NaN \/ b = NaN THEN FALSE ELSE a < b

GreaterThan(a, b) == IF a = NaN \/ b = NaN THEN FALSE ELSE a > b

\* Scalars held in record fields and in step configs are written as TLA+
\* strings, a number or boolean by its literal; these are the falsy ones
Falsy == {"", "0", "false", "null", "NaN"}
Truthy(v) == v \notin Falsy

\* obj[f] = v
SetField(obj, f, v) == [k \in (DOMAIN obj) \cup {f} |-> IF k = f THEN v ELSE obj[k]]
\* delete obj[f]
DeleteField(obj, f) == [k \in (DOMAIN obj) \ {f} |-> obj[k]]
\* { ...a, ...b }: the properties of b win
Spread(a, b) == [k \in (DOMAIN a) \cup (DOMAIN b) |-> IF k \in DOMAIN b THEN b[k] ELSE a[k]]

\* new Error(msg)
Error(msg) == [isError |-> TRUE, message |-> msg]

\* how a call ends: with a returned value or with a thrown value
Returned(v) == [ok |-> TRUE, value |-> v]
Thrown(error) == [ok |-> FALSE, error |-> error]

(***************************************************************************)
(* Filter evaluator.                                                       *)
(***************************************************************************)
\* new RegExp(p).test(v): a pattern is [valid, literal]; an invalid pattern
\* makes the constructor throw, a literal pattern matches where it occurs
RegexThrows(pattern) == ~pattern.valid
RegexTest(pattern, v) == Includes(v, pattern.literal)

\* one pass of the loop over filters.headerConditions: FALSE is `return false`
HeaderConditionHolds(request, condition) ==
    IF ~Has(request.headers, condition.key) \/ request.headers[condition.key] = <<>>
    THEN FALSE
    ELSE LET headerValue == request.headers[condition.key] IN
         CASE condition.operator = "equals" -> headerValue = condition.value
           [] condition.operator = "contains" -> Includes(headerValue, condition.value)
           [] condition.operator = "regex" ->
                IF RegexThrows(condition.value) THEN FALSE
                ELSE RegexTest(condition.value, headerValue)
           [] OTHER -> TRUE

DateRangeRejects(request, filters) ==
    /\ Has(filters, "dateRange")
    /\ \/ LessThan(request.timestamp, filters.dateRange.start)
       \/ GreaterThan(request.timestamp, filters.dateRange.end)

MethodRejects(request, filters) ==
    /\ Has(filters, "methods") /\ Len(filters.methods) > 0
    /\ ~ArrayIncludes(filters.methods, request.method)

ContentTypeRejects(request, filters) ==
    /\ Has(filters, "contentTypes") /\ Len(filters.contentTypes) > 0
    /\ \/ ~Has(request, "contentType")
       \/ request.contentType = <<>>
       \/ ~\E i \in 1..Len(filters.contentTypes) :
              Includes(request.contentType, filters.contentTypes[i])

IpRejects(request, filters) ==
    /\ Has(filters, "ipAddresses") /\ Len(filters.ipAddresses) > 0
    /\ \/ ~Has(request, "ip")
       \/ request.ip = ""
       \/ ~ArrayIncludes(filters.ipAddresses, request.ip)

UserAgentRejects(request, filters) ==
    /\ Has(filters, "userAgents") /\ Len(filters.userAgents) > 0
    /\ \/ ~Has(request, "userAgent")
       \/ request.userAgent = <<>>
       \/ ~\E i \in 1..Len(filters.userAgents) :
              Includes(request.userAgent, filters.userAgents[i])

BodyRejects(request, filters) ==
    /\ Has(filters, "bodyContains") /\ filters.bodyContains # <<>>
    /\ ~Includes(request.body, filters.bodyContains)

HeadersReject(request, filters) ==
    /\ Has(filters, "headerConditions") /\ Len(filters.headerConditions) > 0
    /\ \E i \in 1..Len(filters.headerConditions) :
           ~HeaderConditionHolds(request, filters.headerConditions[i])

\* variant: a record is kept when some predicate accepts it
matches_AnyPredicate(request, filters) ==
    \/ ~DateRangeRejects(request, filters)
    \/ ~MethodRejects(request, filters)
    \/ ~ContentTypeRejects(request, filters)
    \/ ~IpRejects(request, filters)
    \/ ~UserAgentRejects(request, filters)
    \/ ~BodyRejects(request, filters)
    \/ ~HeadersReject(request, filters)

\* the callback of requests.filter in applyFilters
matches(request, filters) ==
    /\ ~DateRangeRejects(request, filters)
    /\ ~MethodRejects(request, filters)
    /\ ~ContentTypeRejects(request, filters)
    /\ ~IpRejects(request, filters)
    /\ ~UserAgentRejects(request, filters)
    /\ ~BodyRejects(request, filters)
    /\ ~HeadersReject(request, filters)

applyFilters(requests, filters) ==
    IF ~filters.defined THEN requests
    ELSE LET Keep(r) == matches(r, filters.value) IN SelectSeq(requests, Keep)

(***************************************************************************)
(* Transformation pipeline.                                                *)
(***************************************************************************)
filterTransformation(data, config) ==
    LET Keep(item) ==
            IF /\ Has(config, "field") /\ Truthy(config.field)
               /\ Has(config, "value") /\ Truthy(config.value)
            THEN Has(item, config.field) /\ item[config.field] = config.value
            ELSE TRUE
    IN SelectSeq(data, Keep)

\* variant: the value is copied to newField and oldField is kept
RECURSIVE RenameFields_KeepsOld(_, _, _)
RenameFields_KeepsOld(mapped, fieldMappings, i) ==
    IF i > Len(fieldMappings) THEN mapped
    ELSE LET oldField == fieldMappings[i][1]
             newField == fieldMappings[i][2]
         IN IF Has(mapped, oldField)
            THEN RenameFields_KeepsOld(SetField(mapped, newField, mapped[oldField]),
                                       fieldMappings, i + 1)
            ELSE RenameFields_KeepsOld(mapped, fieldMappings, i + 1)

\* the loop over Object.entries(config.fieldMappings), from pair i on
RECURSIVE RenameFields(_, _, _)
RenameFields(mapped, fieldMappings, i) ==
    IF i > Len(fieldMappings) THEN mapped
    ELSE LET oldField == fieldMappings[i][1]
             newField == fieldMappings[i][2]
         IN IF Has(mapped, oldField)
            THEN RenameFields(DeleteField(SetField(mapped, newField, mapped[oldField]),
                                          oldField),
                              fieldMappings, i + 1)
            ELSE RenameFields(mapped, fieldMappings, i + 1)

mapTransformation(data, config) ==
    [n \in 1..Len(data) |->
        IF Has(config, "fieldMappings")
        THEN RenameFields(data[n], config.fieldMappings, 1)
        ELSE data[n]]

\* item[config.groupBy], the key of the Map of groups
GroupKey(item, groupBy) ==
    IF Has(item, groupBy) THEN [present |-> TRUE, value |-> item[groupBy]]
    ELSE [present |-> FALSE]

\* variant: a new key goes to the front of the keys
RECURSIVE GroupKeys_NewestFirst(_, _, _)
GroupKeys_NewestFirst(data, groupBy, n) ==
    IF n = 0 THEN <<>>
    ELSE LET before == GroupKeys_NewestFirst(data, groupBy, n - 1)
             key == GroupKey(data[n], groupBy)
         IN IF ArrayIncludes(before, key) THEN before ELSE <<key>> \o before

\* keys of the Map after data.forEach: in order of first insertion
RECURSIVE GroupKeys(_, _, _)
GroupKeys(data, groupBy, n) ==
    IF n = 0 THEN <<>>
    ELSE LET before == GroupKeys(data, groupBy, n - 1)
             key == GroupKey(data[n], groupBy)
         IN IF ArrayIncludes(before, key) THEN before ELSE Append(before, key)

GroupItems(data, groupBy, key) ==
    LET InGroup(item) == GroupKey(item, groupBy) = key IN SelectSeq(data, InGroup)

\* { [config.groupBy]: key, count: items.length, items: ... }: later
\* properties overwrite earlier ones of the same name
GroupSummary(data, config, key) ==
    LET items == GroupItems(data, config.groupBy, key)
        withKey == IF key.present THEN SetField(<<>>, config.groupBy, key.value)
                   ELSE <<>>
        withCount == SetField(withKey, "count", Len(items))
    IN IF Has(config, "includeItems") /\ Truthy(config.includeItems)
       THEN SetField(withCount, "items", items)
       ELSE DeleteField(withCount, "items")

aggregateTransformation(data, config) ==
    IF Has(config, "groupBy") /\ Truthy(config.groupBy)
    THEN LET keys == GroupKeys(data, config.groupBy, Len(data))
         IN [g \in 1..Len(keys) |-> GroupSummary(data, config, keys[g])]
    ELSE data

\* variant: a record that was enriched before keeps its enrichedAt
enrichTransformation_KeepsFirstTime(data, config, time) ==
    [n \in 1..Len(data) |->
        LET item == IF Has(config, "additionalFields")
                    THEN Spread(data[n], config.additionalFields)
                    ELSE data[n]
        IN IF Has(item, "enrichedAt") THEN item ELSE SetField(item, "enrichedAt", time)]

\* time is what new Date() reads when the step runs
enrichTransformation(data, config, time) ==
    [n \in 1..Len(data) |->
        SetField(IF Has(config, "additionalFields")
                 THEN Spread(data[n], config.additionalFields)
                 ELSE data[n],
                 "enrichedAt", time)]

\* variant: a field that holds null counts as present
validateTransformation_AllowsNull(data, config) ==
    LET Keep(item) ==
            IF Has(config, "requiredFields")
            THEN \A i \in 1..Len(config.requiredFields) :
                    Has(item, config.requiredFields[i])
            ELSE TRUE
    IN SelectSeq(data, Keep)

validateTransformation(data, config) ==
    LET Keep(item) ==
            IF Has(config, "requiredFields")
            THEN \A i \in 1..Len(config.requiredFields) :
                    /\ Has(item, config.requiredFields[i])
                    /\ item[config.requiredFields[i]] # "null"
            ELSE TRUE
    IN SelectSeq(data, Keep)

UnknownTransformation == "Unknown transformation type"

applyTransformation(data, transformation, time) ==
    CASE transformation.type = "filter" ->
            Returned(filterTransformation(data, transformation.config))
      [] transformation.type = "map" ->
            Returned(mapTransformation(data, transformation.config))
      [] transformation.type = "aggregate" ->
            Returned(aggregateTransformation(data, transformation.config))
      [] transformation.type = "enrich" ->
            Returned(enrichTransformation(data, transformation.config, time))
      [] transformation.type = "validate" ->
            Returned(validateTransformation(data, transformation.config))
      [] OTHER -> Thrown(Error(UnknownTransformation))

\* variant: steps of equal order value end up in reverse
RECURSIVE SortByOrder_TiesReversed(_)
SortByOrder_TiesReversed(steps) ==
    IF steps = <<>> THEN <<>>
    ELSE LET first == Head(steps)
             NotAfter(t) == ~(first.order < t.order)
             After(t) == first.order < t.order
             rest == SortByOrder_TiesReversed(Tail(steps))
         IN SelectSeq(rest, NotAfter) \o <<first>> \o SelectSeq(rest, After)

\* Array.prototype.sort((a, b) => a.order - b.order): stable, ascending order
RECURSIVE SortByOrder(_)
SortByOrder(steps) ==
    IF steps = <<>> THEN <<>>
    ELSE LET first == Head(steps)
             Before(t) == t.order < first.order
             NotBefore(t) == ~(t.order < first.order)
             rest == SortByOrder(Tail(steps))
         IN SelectSeq(rest, Before) \o <<first>> \o SelectSeq(rest, NotBefore)

EnabledSteps(transformations) ==
    LET IsEnabled(t) == t.enabled IN SelectSeq(transformations, IsEnabled)

\* variant: a step that throws is skipped and the loop goes on
RECURSIVE RunSteps_SkipsFailedStep(_, _, _, _)
RunSteps_SkipsFailedStep(transformedData, sorted, i, time) ==
    IF i > Len(sorted) THEN Returned(transformedData)
    ELSE LET r == applyTransformation(transformedData, sorted[i], time)
         IN RunSteps_SkipsFailedStep(IF r.ok THEN r.value ELSE transformedData,
                                     sorted, i + 1, time)

\* the for loop of transform over sortedTransformations, from step i on
RECURSIVE RunSteps(_, _, _, _)
RunSteps(transformedData, sorted, i, time) ==
    IF i > Len(sorted) THEN Returned(transformedData)
    ELSE LET r == applyTransformation(transformedData, sorted[i], time)
         IN IF r.ok THEN RunSteps(r.value, sorted, i + 1, time) ELSE r

transform(data, transformations, time) ==
    IF ~transformations.defined \/ Len(transformations.value) = 0
    THEN Returned(data)
    ELSE RunSteps(data, SortByOrder(EnabledSteps(transformations.value)), 1, time)

(***************************************************************************)
(* Destination loader.  What load() does up to its first await:            *)
(* it returns, throws, or leaves an outbound fetch outstanding.            *)
(***************************************************************************)
UnsupportedDestination == "Unsupported destination type"
FetchFailed == "fetch failed"

\* JSON.stringify(value): the text of the value
JSONStringify(value) == [json |-> value]

\* variant: the webhook loader stops after its first call
FetchesNeeded_OneCall(data, destination) ==
    IF ~destination.defined THEN 0
    ELSE CASE destination.value.type = "webhook" -> IF Len(data) > 0 THEN 1 ELSE 0
           [] destination.value.type = "api" -> 1
           [] OTHER -> 0

\* number of fetch calls the loader issues for data when none fails
FetchesNeeded(data, destination) ==
    IF ~destination.defined THEN 0
    ELSE CASE destination.value.type = "webhook" -> Len(data)
           [] destination.value.type = "api" -> 1
           [] OTHER -> 0

\* the body of the k-th fetch call: loadToWebhook sends the k-th item,
\* loadToAPI the whole array
FetchBody(data, destination, k) ==
    IF destination.value.type = "webhook" THEN JSONStringify(data[k])
    ELSE JSONStringify(data)

\* variant: a destination type without a case is passed over
load_SkipsUnknownType(data, destination) ==
    IF ~destination.defined THEN "returned"
    ELSE CASE destination.value.type = "webhook" ->
                IF Len(data) > 0 THEN "fetching" ELSE "returned"
           [] destination.value.type = "api" -> "fetching"
           [] OTHER -> "returned"

\* load(): "fetching" while a fetch is awaited, else the settled outcome
load(data, destination) ==
    IF ~destination.defined THEN "returned"
    ELSE CASE destination.value.type = "webhook" ->
                IF Len(data) > 0 THEN "fetching" ELSE "returned"
           [] destination.value.type = "file" -> "returned"
           [] destination.value.type = "email" -> "returned"
           [] destination.value.type = "api" -> "fetching"
           [] OTHER -> "thrown"

(***************************************************************************)
(* Storage collaborator: the captured requests the engine reads.           *)
(***************************************************************************)
Req(id, webhookId, method, timestamp) ==
    [id |-> id, webhookId |-> webhookId, method |-> method, path |-> "/",
     headers |-> [h1 |-> <<"a", "b">>], body |-> <<"x", "y">>,
     timestamp |-> timestamp, contentType |-> <<"json">>]

\* three POST and two GET requests on endpoint w1, one POST on w2
StoredRequests ==
    [w1 |-> <<Req("r1", "w1", "POST", 1), Req("r2", "w1", "GET", 2),
              Req("r3", "w1", "POST", 3), Req("r4", "w1", "GET", 4),
              Req("r5", "w1", "POST", 5)>>,
     w2 |-> <<Req("r6", "w2", "POST", 6)>>]

getAllWebhookConfigs == <<[id |-> "w1"], [id |-> "w2"]>>

getRequests(webhookId) ==
    IF webhookId \in DOMAIN StoredRequests THEN StoredRequests[webhookId] ELSE <<>>

StorageFailed == "storage failed"

\* the for loop of extract over configs, from config i on
RECURSIVE RequestsOfConfigs(_, _)
RequestsOfConfigs(configs, i) ==
    IF i > Len(configs) THEN <<>>
    ELSE getRequests(configs[i].id) \o RequestsOfConfigs(configs, i + 1)

\* extract() when every storage read returns
extract(filters) ==
    LET allRequests ==
            IF /\ filters.defined
               /\ Has(filters.value, "webhookId") /\ Truthy(filters.value.webhookId)
            THEN getRequests(filters.value.webhookId)
            ELSE RequestsOfConfigs(getAllWebhookConfigs, 1)
    IN applyFilters(allRequests, filters)

(***************************************************************************)
(* Job specifications submitted in the model.                              *)
(***************************************************************************)
Step(id, type, config, enabled, order) ==
    [id |-> id, type |-> type, config |-> config, enabled |-> enabled, order |-> order]

\* the POST requests of w1, a redundant filter step, written to a file
ScenarioSpec ==
    [filters |-> [webhookId |-> "w1", methods |-> <<"POST">>],
     transformations |->
        <<Step("t1", "filter", [field |-> "method", value |-> "POST"], TRUE, 1)>>,
     destination |-> [type |-> "file", config |-> [filename |-> "out"]]]

\* every request, no steps, the reserved destination type
DatabaseSpec ==
    [destination |-> [type |-> "database", config |-> <<>>]]

\* the requests of w1, grouped by method, then a step of an unknown type,
\* then a step that keeps the GET group, sent to a webhook
BadStepSpec ==
    [filters |-> [webhookId |-> "w1"],
     transformations |->
        <<Step("t3", "filter", [field |-> "method", value |-> "GET"], TRUE, 3),
          Step("t2", "split", <<>>, TRUE, 2),
          Step("t1", "aggregate", [groupBy |-> "method"], TRUE, 1)>>,
     destination |-> [type |-> "webhook", config |-> [url |-> "u"]]]

\* the requests of w1 grouped by method, one outbound call for each group
WebhookSpec ==
    [filters |-> [webhookId |-> "w1"],
     transformations |->
        <<Step("t1", "aggregate", [groupBy |-> "method"], TRUE, 1)>>,
     destination |-> [type |-> "webhook", config |-> [url |-> "u"]]]

\* the request of w2, no steps, no destination
NoDestinationSpec ==
    [filters |-> [webhookId |-> "w2"]]

\* a job for endpoint w2: the webhookId of the job, no filters, written to a file
EndpointSpec ==
    [webhookId |-> "w2",
     destination |-> [type |-> "file", config |-> [filename |-> "out"]]]

JobSpecs ==
    {ScenarioSpec, DatabaseSpec, BadStepSpec, WebhookSpec, NoDestinationSpec, EndpointSpec}

(***************************************************************************)
(* Job lifecycle manager.                                                  *)
(***************************************************************************)
VARIABLES
    jobs,        \* ETLEngine.jobs: job id -> job object
    activeJobs,  \* ETLEngine.activeJobs
    execs,       \* the frames of executeJob that are suspended at an await
    now,         \* what new Date() reads
    lastOp,      \* the last call that returned or settled, and its answer
    bulkOperations,  \* AdminDispatcher.bulkOperations: operation id -> operation
    bulkExecs,       \* the frames of executeBulkOperationAsync, by operation id
    handlers,        \* the calls of the webhook route's handleRequest
    savedRequests    \* the request records the storage manager holds

vars == <<jobs, activeJobs, execs, now, lastOp,
          bulkOperations, bulkExecs, handlers, savedRequests>>

\* the state of the admin dispatcher and of the webhook route
serverVars == <<bulkOperations, bulkExecs, handlers, savedRequests>>

\* a new AdminDispatcher, no request in flight, an empty store
InitServer ==
    /\ bulkOperations = <<>>
    /\ bulkExecs = <<>>
    /\ handlers = <<>>
    /\ savedRequests = <<>>

NoTime == 0
NoError == "undefined"

\* Map.prototype.set
MapSet(map, key, value) ==
    [k \in (DOMAIN map) \cup {key} |-> IF k = key THEN value ELSE map[k]]

\* generateId(): an id not handed out before
generateId == Cardinality(DOMAIN jobs) + 1

\* the job object built by createETLJob and by the POST handler; startedAt,
\* completedAt, progress and error are not set.  The properties the engine
\* never reads or writes (name, type, schedule, createdAt, metadata) are left out
NewJob(id, spec) ==
    Spread(spec,
           [id |-> id, status |-> "pending",
            startedAt |-> NoTime, completedAt |-> NoTime,
            progress |-> Undefined, error |-> NoError])

ResetProgress ==
    [totalRecords |-> 0, processedRecords |-> 0, successfulRecords |-> 0,
     failedRecords |-> 0, percentage |-> 0, currentPhase |-> "extract"]

\* variant: a job that was run before keeps its progress record
StartedJob_KeepsProgress(job, time) ==
    [job EXCEPT !.status = "running", !.startedAt = time,
                !.progress = IF job.progress = Undefined THEN ResetProgress
                             ELSE [job.progress EXCEPT !.currentPhase = "extract"]]

\* executeJob, lines 137-151: the job on entry to the extract phase
StartedJob(job, time) ==
    [job EXCEPT !.status = "running", !.startedAt = time, !.progress = ResetProgress]

\* executeJob, lines 153 and 156
ExtractedJob(job, extractedData) ==
    [job EXCEPT !.progress.totalRecords = Len(extractedData),
                !.progress.currentPhase = "transform"]

\* executeJob, lines 158 and 161
TransformedJob(job, transformedData) ==
    [job EXCEPT !.progress.processedRecords = Len(transformedData),
                !.progress.currentPhase = "load"]

\* variant: successfulRecords counts the extracted records
CompletedJob_CountsExtracted(job, transformedData, time) ==
    [job EXCEPT !.progress.successfulRecords = job.progress.totalRecords,
                !.progress.percentage = 100,
                !.status = "completed",
                !.completedAt = time,
                !.progress.currentPhase = "completed"]

\* executeJob, lines 163-169
CompletedJob(job, transformedData, time) ==
    [job EXCEPT !.progress.successfulRecords = Len(transformedData),
                !.progress.percentage = 100,
                !.status = "completed",
                !.completedAt = time,
                !.progress.currentPhase = "completed"]

\* error instanceof Error ? error.message : 'Unknown error'
ErrorMessage(error) == IF error.isError THEN error.message ELSE "Unknown error"

\* variant: the catch block does not record the message
FailedJob_NoMessage(job, error, time) ==
    [job EXCEPT !.status = "failed", !.completedAt = time]

\* executeJob, the catch block
FailedJob(job, error, time) ==
    [job EXCEPT !.status = "failed", !.error = ErrorMessage(error), !.completedAt = time]

\* variant: cancelJob leaves the status as it is
CancelledJob_KeepsStatus(job, time) == [job EXCEPT !.completedAt = time]

\* cancelJob, lines 424-425
CancelledJob(job, time) ==
    [job EXCEPT !.status = "cancelled", !.completedAt = time]

\* the guard of executeJob
AlreadyRunning(jobId) == jobId \in activeJobs

\* variant: every stored job can be cancelled
CanCancel_AnyStoredJob(jobId) == jobId \in DOMAIN jobs

\* the guard of cancelJob
CanCancel(jobId) == jobId \in DOMAIN jobs /\ jobId \in activeJobs

\* variant: the finally block empties the set
Released_ClearsAll(jobId) == {}

\* variant: the finally block leaves the id in the set
Released_KeepsId(jobId) == activeJobs

\* the finally block of executeJob: activeJobs.delete(jobId)
Released(jobId) == activeJobs \ {jobId}

ExecIds == 1..MaxExecs

\* no frame
IdleExec ==
    [jobId |-> 0, pc |-> "idle", extractedData |-> <<>>, transformedData |-> <<>>,
     transformed |-> Returned(<<>>), loading |-> "none", fetches |-> 0,
     sent |-> <<>>, interfered |-> FALSE]

\* the frame of executeJob(job) suspended at the await of extract
NewExec(jobId) == [IdleExec EXCEPT !.jobId = jobId, !.pc = "extract"]

InFlight(e) == execs[e].pc # "idle"

FreeExecIds == {e \in ExecIds : ~InFlight(e)}

\* history kept for the properties: the frames of jobId other than e have
\* seen another call write their job
Interfere(frames, jobId, e) ==
    [f \in DOMAIN frames |->
        IF f # e /\ frames[f].jobId = jobId
        THEN [frames[f] EXCEPT !.interfered = TRUE]
        ELSE frames[f]]

\* what a call gave its caller: ret names the outcome, value is the object
\* handed back (a job, or the array of all jobs), thrown the error thrown
Answer(op, jobId, ret) ==
    [op |-> op, jobId |-> jobId, ret |-> ret, value |-> Undefined, thrown |-> Undefined]
AnswerWith(op, jobId, ret, value) ==
    [op |-> op, jobId |-> jobId, ret |-> ret, value |-> value, thrown |-> Undefined]
Throws(op, jobId, error) ==
    [op |-> op, jobId |-> jobId, ret |-> "throws", value |-> Undefined, thrown |-> error]

\* a frame went from one await to the next: no call has ended
Resumed == Answer("resume", 0, "pending")

JobAlreadyRunning == "Job is already running"

Init ==
    /\ jobs = <<>>
    /\ activeJobs = {}
    /\ execs = [e \in ExecIds |-> IdleExec]
    /\ InitServer
    /\ now = 1
    /\ lastOp = Answer("none", 0, "none")

\* time passes
Tick ==
    /\ now < MaxTime
    /\ now' = now + 1
    /\ UNCHANGED <<jobs, activeJobs, execs, lastOp, serverVars>>

\* AdminDispatcher.createETLJob: build the job and store it
createETLJob(spec) ==
    /\ generateId \in JobIds
    /\ jobs' = MapSet(jobs, generateId, NewJob(generateId, spec))
    /\ lastOp' = AnswerWith("createETLJob", generateId, "job", NewJob(generateId, spec))
    /\ UNCHANGED <<activeJobs, execs, now, serverVars>>

\* the schedule property of a POST body
Schedules == {NotDefined, Defined([type |-> "once"]), Defined([type |-> "recurring"])}

\* the condition of the POST handler for executing the job at once
OneTime(schedule) == ~schedule.defined \/ schedule.value.type = "once"

\* POST of the ETL route: named says that the body has a name and a type.
\* A one-time job is handed to executeJob, which runs up to the await of
\* extract before the handler builds its response from the job object
POST(spec, schedule, named) ==
    IF ~named
    THEN /\ lastOp' = Answer("POST", 0, "400")
         /\ UNCHANGED <<jobs, activeJobs, execs, now, serverVars>>
    ELSE /\ generateId \in JobIds
         /\ IF OneTime(schedule)
            THEN /\ FreeExecIds # {}
                 /\ LET e == CHOOSE f \in FreeExecIds : \A g \in FreeExecIds : f <= g IN
                    execs' = [execs EXCEPT ![e] = NewExec(generateId)]
                 /\ activeJobs' = activeJobs \cup {generateId}
                 /\ jobs' = MapSet(jobs, generateId,
                                   StartedJob(NewJob(generateId, spec), now))
            ELSE /\ jobs' = MapSet(jobs, generateId, NewJob(generateId, spec))
                 /\ UNCHANGED <<activeJobs, execs, serverVars>>
         /\ lastOp' = AnswerWith("POST", generateId, "200", jobs'[generateId])
         /\ UNCHANGED <<now, serverVars>>

\* variant: getJob stores a job under an id it does not know
getJob_StoresDefault(jobId) ==
    IF jobId \in DOMAIN jobs
    THEN /\ lastOp' = AnswerWith("getJob", jobId, "job", jobs[jobId])
         /\ UNCHANGED <<jobs, activeJobs, execs, now, serverVars>>
    ELSE /\ jobId = generateId
         /\ jobs' = MapSet(jobs, jobId, NewJob(jobId, NoDestinationSpec))
         /\ lastOp' = AnswerWith("getJob", jobId, "job", NewJob(jobId, NoDestinationSpec))
         /\ UNCHANGED <<activeJobs, execs, now, serverVars>>

\* getJob(jobId): jobs.get(jobId)
getJob(jobId) ==
    /\ lastOp' = IF jobId \in DOMAIN jobs
                 THEN AnswerWith("getJob", jobId, "job", jobs[jobId])
                 ELSE Answer("getJob", jobId, "undefined")
    /\ UNCHANGED <<jobs, activeJobs, execs, now, serverVars>>

\* getAllJobs(): Array.from(jobs.values()), the jobs in order of insertion
getAllJobs ==
    /\ lastOp' = AnswerWith("getAllJobs", 0, "array", [array |-> jobs])
    /\ UNCHANGED <<jobs, activeJobs, execs, now, serverVars>>

\* isJobRunning(jobId): activeJobs.has(jobId)
isJobRunning(jobId) ==
    /\ lastOp' = Answer("isJobRunning", jobId,
                        IF jobId \in activeJobs THEN "true" ELSE "false")
    /\ UNCHANGED <<jobs, activeJobs, execs, now, serverVars>>

\* executeJob(job) from its entry to the await of extract
executeJobAccepted(jobId) ==
    /\ ~AlreadyRunning(jobId)
    /\ FreeExecIds # {}
    /\ LET e == CHOOSE f \in FreeExecIds : \A g \in FreeExecIds : f <= g IN
       execs' = [Interfere(execs, jobId, e) EXCEPT ![e] = NewExec(jobId)]
    /\ activeJobs' = activeJobs \cup {jobId}
    /\ jobs' = MapSet(jobs, jobId, StartedJob(jobs[jobId], now))
    /\ lastOp' = Answer("executeJob", jobId, "started")
    /\ UNCHANGED <<now, serverVars>>

\* variant: the guard sits inside the try block, so that the catch and finally
\* blocks run for the rejected call
executeJobRejected_InsideTry(jobId) ==
    /\ AlreadyRunning(jobId)
    /\ jobs' = MapSet(jobs, jobId, FailedJob(jobs[jobId], Error(JobAlreadyRunning), now))
    /\ activeJobs' = Released(jobId)
    /\ lastOp' = Throws("executeJob", jobId, Error(JobAlreadyRunning))
    /\ UNCHANGED <<execs, now, serverVars>>

\* executeJob(job) throwing at its guard
executeJobRejected(jobId) ==
    /\ AlreadyRunning(jobId)
    /\ lastOp' = Throws("executeJob", jobId, Error(JobAlreadyRunning))
    /\ UNCHANGED <<jobs, activeJobs, execs, now, serverVars>>

\* execute_etl_job of the admin dispatcher: getJob, then executeJob
executeJob(jobId) ==
    /\ jobId \in DOMAIN jobs
    /\ \/ executeJobAccepted(jobId)
       \/ executeJobRejected(jobId)

\* variant: a successful cancelJob ends the executions of the job
cancelJob_AbortsExecution(jobId) ==
    IF CanCancel(jobId)
    THEN /\ jobs' = MapSet(jobs, jobId, CancelledJob(jobs[jobId], now))
         /\ activeJobs' = activeJobs \ {jobId}
         /\ execs' = [e \in ExecIds |->
                        IF execs[e].jobId = jobId THEN IdleExec ELSE execs[e]]
         /\ lastOp' = Answer("cancelJob", jobId, "true")
         /\ UNCHANGED <<now, serverVars>>
    ELSE /\ lastOp' = Answer("cancelJob", jobId, "false")
         /\ UNCHANGED <<jobs, activeJobs, execs, now, serverVars>>

\* cancelJob(jobId)
cancelJob(jobId) ==
    IF CanCancel(jobId)
    THEN /\ jobs' = MapSet(jobs, jobId, CancelledJob(jobs[jobId], now))
         /\ activeJobs' = activeJobs \ {jobId}
         /\ execs' = Interfere(execs, jobId, 0)
         /\ lastOp' = Answer("cancelJob", jobId, "true")
         /\ UNCHANGED <<now, serverVars>>
    ELSE /\ lastOp' = Answer("cancelJob", jobId, "false")
         /\ UNCHANGED <<jobs, activeJobs, execs, now, serverVars>>

\* the actions a PATCH body can name; the empty one stands for a body
\* without an action
ControlActions == {"start", "cancel", "pause", ""}

\* what PATCH hands back: the status code, next to the action it was asked for
Control(jobId, action, code) ==
    AnswerWith("PATCH", jobId, code, [action |-> action])

\* variant: every job that is not running can be started
Startable_NotRunning(job) == job.status # "running"

\* the condition of PATCH for starting the job
Startable(job) == job.status = "pending"

\* PATCH of the ETL route.  A started job is handed to executeJob without
\* await, which runs up to the await of extract or throws at its guard; both
\* ways the handler answers 200
PATCH(jobId, action) ==
    IF action = ""
    THEN /\ lastOp' = Control(jobId, action, "400")
         /\ UNCHANGED <<jobs, activeJobs, execs, now, serverVars>>
    ELSE IF jobId \notin DOMAIN jobs
    THEN /\ lastOp' = Control(jobId, action, "404")
         /\ UNCHANGED <<jobs, activeJobs, execs, now, serverVars>>
    ELSE CASE action = "start" ->
                IF ~Startable(jobs[jobId])
                THEN /\ lastOp' = Control(jobId, action, "400")
                     /\ UNCHANGED <<jobs, activeJobs, execs, now, serverVars>>
                ELSE IF AlreadyRunning(jobId)
                THEN /\ lastOp' = Control(jobId, action, "200")
                     /\ UNCHANGED <<jobs, activeJobs, execs, now, serverVars>>
                ELSE /\ FreeExecIds # {}
                     /\ LET e == CHOOSE f \in FreeExecIds : \A g \in FreeExecIds : f <= g IN
                        execs' = [Interfere(execs, jobId, e) EXCEPT ![e] = NewExec(jobId)]
                     /\ activeJobs' = activeJobs \cup {jobId}
                     /\ jobs' = MapSet(jobs, jobId, StartedJob(jobs[jobId], now))
                     /\ lastOp' = Control(jobId, action, "200")
                     /\ UNCHANGED <<now, serverVars>>
           [] action = "cancel" ->
                IF CanCancel(jobId)
                THEN /\ jobs' = MapSet(jobs, jobId, CancelledJob(jobs[jobId], now))
                     /\ activeJobs' = activeJobs \ {jobId}
                     /\ execs' = Interfere(execs, jobId, 0)
                     /\ lastOp' = Control(jobId, action, "200")
                     /\ UNCHANGED <<now, serverVars>>
                ELSE /\ lastOp' = Control(jobId, action, "400")
                     /\ UNCHANGED <<jobs, activeJobs, execs, now, serverVars>>
           [] OTHER ->
                /\ lastOp' = Control(jobId, action, "400")
                /\ UNCHANGED <<jobs, activeJobs, execs, now, serverVars>>

\* the catch and finally blocks of executeJob in frame e
Fail(e, error) ==
    LET jobId == execs[e].jobId IN
    /\ jobs' = MapSet(jobs, jobId, FailedJob(jobs[jobId], error, now))
    /\ activeJobs' = Released(jobId)
    /\ execs' = [Interfere(execs, jobId, e) EXCEPT ![e] = IdleExec]
    /\ lastOp' = Throws("executeJob", jobId, error)
    /\ UNCHANGED <<now, serverVars>>

\* frame e resumes after extract returned: lines 153-157, transform called
extractReturns(e) ==
    LET jobId == execs[e].jobId
        extractedData == extract(Optional(jobs[jobId], "filters"))
    IN
    /\ execs[e].pc = "extract"
    /\ jobs' = MapSet(jobs, jobId, ExtractedJob(jobs[jobId], extractedData))
    /\ execs' = [Interfere(execs, jobId, e) EXCEPT
                    ![e].pc = "transform",
                    ![e].extractedData = extractedData,
                    ![e].transformed =
                        transform(extractedData, Optional(jobs[jobId], "transformations"), now)]
    /\ lastOp' = Resumed
    /\ UNCHANGED <<activeJobs, now, serverVars>>

\* a storage read of extract failed
extractThrows(e) ==
    /\ execs[e].pc = "extract"
    /\ Fail(e, Error(StorageFailed))

\* frame e resumes after transform returned: lines 158-162, load called
transformReturns(e) ==
    LET jobId == execs[e].jobId
        transformedData == execs[e].transformed.value
    IN
    /\ execs[e].pc = "transform"
    /\ execs[e].transformed.ok
    /\ jobs' = MapSet(jobs, jobId, TransformedJob(jobs[jobId], transformedData))
    /\ execs' = [Interfere(execs, jobId, e) EXCEPT
                    ![e].pc = "load",
                    ![e].transformedData = transformedData,
                    ![e].loading = load(transformedData, Optional(jobs[jobId], "destination")),
                    ![e].fetches =
                        IF load(transformedData, Optional(jobs[jobId], "destination")) = "fetching"
                        THEN 1 ELSE 0,
                    ![e].sent =
                        IF load(transformedData, Optional(jobs[jobId], "destination")) = "fetching"
                        THEN <<FetchBody(transformedData, Optional(jobs[jobId], "destination"), 1)>>
                        ELSE <<>>]
    /\ lastOp' = Resumed
    /\ UNCHANGED <<activeJobs, now, serverVars>>

\* a step of the pipeline threw
transformThrows(e) ==
    /\ execs[e].pc = "transform"
    /\ ~execs[e].transformed.ok
    /\ Fail(e, execs[e].transformed.error)

\* a fetch of the loader returned and the loader issues the next one
fetchReturns(e) ==
    /\ execs[e].pc = "load"
    /\ execs[e].loading = "fetching"
    /\ execs[e].fetches <
          FetchesNeeded(execs[e].transformedData,
                        Optional(jobs[execs[e].jobId], "destination"))
    /\ execs' = [execs EXCEPT
                    ![e].fetches = @ + 1,
                    ![e].sent = Append(@, FetchBody(execs[e].transformedData,
                                                    Optional(jobs[execs[e].jobId], "destination"),
                                                    execs[e].fetches + 1))]
    /\ lastOp' = Resumed
    /\ UNCHANGED <<jobs, activeJobs, now, serverVars>>

\* frame e resumes after load returned: lines 163-171 and the finally block
loadReturns(e) ==
    LET jobId == execs[e].jobId IN
    /\ execs[e].pc = "load"
    /\ \/ execs[e].loading = "returned"
       \/ /\ execs[e].loading = "fetching"
          /\ execs[e].fetches =
                FetchesNeeded(execs[e].transformedData,
                              Optional(jobs[jobId], "destination"))
    /\ jobs' = MapSet(jobs, jobId,
                      CompletedJob(jobs[jobId], execs[e].transformedData, now))
    /\ activeJobs' = Released(jobId)
    /\ execs' = [Interfere(execs, jobId, e) EXCEPT ![e] = IdleExec]
    /\ lastOp' = Answer("executeJob", jobId, "resolved")
    /\ UNCHANGED <<now, serverVars>>

\* load threw: the destination type is not supported, or a fetch failed
loadThrows(e) ==
    /\ execs[e].pc = "load"
    /\ \/ execs[e].loading = "thrown" /\ Fail(e, Error(UnsupportedDestination))
       \/ execs[e].loading = "fetching" /\ Fail(e, Error(FetchFailed))

Next ==
    \/ Tick
    \/ \E spec \in JobSpecs : createETLJob(spec)
    \/ \E spec \in JobSpecs, schedule \in Schedules, named \in BOOLEAN :
            POST(spec, schedule, named)
    \/ \E jobId \in JobIds : getJob(jobId)
    \/ getAllJobs
    \/ \E jobId \in JobIds : isJobRunning(jobId)
    \/ \E jobId \in JobIds : executeJob(jobId)
    \/ \E jobId \in JobIds : cancelJob(jobId)
    \/ \E jobId \in JobIds \cup {MaxJobs + 1}, action \in ControlActions :
            PATCH(jobId, action)
    \/ \E e \in ExecIds : extractReturns(e)
    \/ \E e \in ExecIds : extractThrows(e)
    \/ \E e \in ExecIds : transformReturns(e)
    \/ \E e \in ExecIds : transformThrows(e)
    \/ \E e \in ExecIds : fetchReturns(e)
    \/ \E e \in ExecIds : loadReturns(e)
    \/ \E e \in ExecIds : loadThrows(e)

Spec == Init /\ [][Next]_vars

(***************************************************************************)
(* Properties of the job lifecycle manager.                                *)
(***************************************************************************)
ExecsOf(jobId) == {e \in ExecIds : InFlight(e) /\ execs[e].jobId = jobId}

HasProgress(jobId) == jobId \in DOMAIN jobs /\ jobs[jobId].progress # Undefined

\* C1: for every job id at most one execution of executeJob is between its
\* entry and its finally block at any time.
C1_AtMostOneExecutionPerJob ==
    \A jobId \in JobIds : Cardinality(ExecsOf(jobId)) <= 1

\* the step is an executeJob call that throws 'already running'
RejectedStart ==
    /\ lastOp' # lastOp
    /\ lastOp'.op = "executeJob"
    /\ lastOp'.ret = "throws"
    /\ lastOp'.thrown = Error(JobAlreadyRunning)

\* the step is an executeJob call that passes the guard: a frame appears
AcceptedStart(e) == ~InFlight(e) /\ execs'[e].pc # "idle"

\* C2: executeJob for a job id that is in the active-job set throws 'job
\* already running', and the rejected call changes neither the job records
\* (status, progress, error, timestamps), nor the active-job set, nor the
\* execution in flight; no call for an active job id is accepted.
C2_RejectedStartChangesNothing ==
    [][/\ RejectedStart =>
            /\ lastOp'.jobId \in activeJobs
            /\ UNCHANGED <<jobs, activeJobs, execs>>
       /\ \A e \in ExecIds :
            AcceptedStart(e) => execs'[e].jobId \notin activeJobs]_vars

C2_Witness ==
    /\ lastOp.op = "executeJob"
    /\ lastOp.thrown = Error(JobAlreadyRunning)
    /\ lastOp.jobId \in activeJobs
    /\ jobs[lastOp.jobId].status = "running"
    /\ ExecsOf(lastOp.jobId) # {}

Terminal == {"completed", "failed", "cancelled"}

\* the status changes the lifecycle allows without a new executeJob call
LifecycleSteps ==
    {<<"pending", "running">>, <<"running", "completed">>,
     <<"running", "failed">>, <<"running", "cancelled">>}

\* C3: every change of a stored job's status is pending->running,
\* running->completed, running->failed or running->cancelled, or a new
\* executeJob call taking a terminal job back to running; a terminal status
\* never changes to another terminal status.
C3_StatusFollowsLifecycle ==
    [][\A jobId \in DOMAIN jobs :
         jobs'[jobId].status # jobs[jobId].status =>
            \/ <<jobs[jobId].status, jobs'[jobId].status>> \in LifecycleSteps
            \/ /\ jobs[jobId].status \in Terminal
               /\ jobs'[jobId].status = "running"
               /\ \E e \in ExecIds : AcceptedStart(e) /\ execs'[e].jobId = jobId]_vars

\* C4: a job's status and progress.currentPhase are consistent in every state:
\* running implies a phase of extract, transform or load, and the phase is
\* completed exactly when the status is completed.
C4_StatusAndPhaseConsistent ==
    \A jobId \in JobIds :
        HasProgress(jobId) =>
            /\ jobs[jobId].status = "running" =>
                    jobs[jobId].progress.currentPhase \in {"extract", "transform", "load"}
            /\ jobs[jobId].progress.currentPhase = "completed" <=>
                    jobs[jobId].status = "completed"

\* the step is a cancelJob call
CancelCall == lastOp' # lastOp /\ lastOp'.op = "cancelJob"

\* C5: cancelJob returns true exactly when the job id is in the active-job set
\* at the call; then the status is cancelled, completedAt is stamped and the id
\* has left the active-job set; otherwise it returns false and changes neither
\* the job records nor the active-job set.
C5_CancelOnlyActiveJobs ==
    [][CancelCall =>
        LET jobId == lastOp'.jobId IN
        /\ lastOp'.ret = "true" <=> jobId \in activeJobs
        /\ lastOp'.ret = "true" =>
            /\ jobs'[jobId].status = "cancelled"
            /\ jobs'[jobId].completedAt = now
            /\ activeJobs' = activeJobs \ {jobId}
        /\ lastOp'.ret # "true" =>
            /\ lastOp'.ret = "false"
            /\ UNCHANGED <<jobs, activeJobs>>]_vars

C5_Witness ==
    /\ lastOp.op = "cancelJob"
    /\ lastOp.ret = "true"
    /\ jobs[lastOp.jobId].status = "cancelled"
    /\ jobs[lastOp.jobId].completedAt = now
    /\ lastOp.jobId \notin activeJobs

\* the error a phase of frame e raises in this step, if one does
Raised(e) ==
    CASE execs[e].pc = "extract" -> Error(StorageFailed)
      [] execs[e].pc = "transform" -> execs[e].transformed.error
      [] execs[e].pc = "load" /\ execs[e].loading = "thrown" -> Error(UnsupportedDestination)
      [] OTHER -> Error(FetchFailed)

\* the step ends frame e with an error of one of its phases
PhaseRaises(e) == extractThrows(e) \/ transformThrows(e) \/ loadThrows(e)

\* C6: when a phase of an execution raises an error, at the end of that
\* executeJob call the job is failed, its error is the error's message,
\* completedAt is stamped, the job id is not in the active-job set and the
\* call throws the same error to its caller.
C6_PhaseErrorFailsJob ==
    [][\A e \in ExecIds :
         PhaseRaises(e) =>
            LET jobId == execs[e].jobId IN
            /\ jobs'[jobId].status = "failed"
            /\ jobs'[jobId].error = Raised(e).message
            /\ jobs'[jobId].completedAt = now
            /\ jobId \notin activeJobs'
            /\ ~InFlight(e)'
            /\ lastOp' = Throws("executeJob", jobId, Raised(e))]_vars

C6_Witness ==
    /\ lastOp.op = "executeJob"
    /\ lastOp.ret = "throws"
    /\ lastOp.thrown = Error(UnknownTransformation)
    /\ jobs[lastOp.jobId].status = "failed"
    /\ jobs[lastOp.jobId].error = UnknownTransformation
    /\ lastOp.jobId \notin activeJobs

\* C7: when an execution runs its three phases without error and no other
\* call writes the job meanwhile, the job ends with totalRecords = number of
\* records extract returned, processedRecords = number of records transform
\* returned, successfulRecords = processedRecords, percentage 100, phase and
\* status completed, completedAt stamped and the id out of the active-job
\* set; the POST-only job on 3 POST + 2 GET requests ends with 3, 3, 3, 100.
C7_UndisturbedRunCompletes ==
    [][\A e \in ExecIds :
         loadReturns(e) /\ ~execs[e].interfered =>
            LET jobId == execs[e].jobId
                progress == jobs'[jobId].progress
            IN
            /\ progress.totalRecords = Len(execs[e].extractedData)
            /\ progress.processedRecords = Len(execs[e].transformedData)
            /\ progress.successfulRecords = progress.processedRecords
            /\ progress.failedRecords = 0
            /\ progress.percentage = 100
            /\ progress.currentPhase = "completed"
            /\ jobs'[jobId].status = "completed"
            /\ jobs'[jobId].completedAt = now
            /\ jobId \notin activeJobs'
            /\ Optional(jobs[jobId], "filters") = Defined(ScenarioSpec.filters) =>
                    /\ progress.totalRecords = 3
                    /\ progress.processedRecords = 3
                    /\ progress.successfulRecords = 3]_vars

C7_Witness ==
    /\ lastOp.op = "executeJob"
    /\ lastOp.ret = "resolved"
    /\ jobs[lastOp.jobId].status = "completed"
    /\ jobs[lastOp.jobId].progress.totalRecords = 5
    /\ jobs[lastOp.jobId].progress.processedRecords = 2
    /\ jobs[lastOp.jobId].progress.successfulRecords = 2
    /\ jobs[lastOp.jobId].progress.percentage = 100
    /\ lastOp.jobId \notin activeJobs

\* C8: while an execution of a job is in flight, the job's progress.percentage
\* never decreases, whatever other calls interleave.
C8_PercentageNeverDecreases ==
    [][\A e \in ExecIds :
         InFlight(e) =>
            jobs'[execs[e].jobId].progress.percentage >=
                jobs[execs[e].jobId].progress.percentage]_vars

\* C9: every accepted start sets status to running and resets progress to
\* 0, 0, 0, 0, 0 % and phase extract before extract begins, also when the job
\* was run before.
C9_StartResetsProgress ==
    [][\A e \in ExecIds :
         AcceptedStart(e) =>
            LET jobId == execs'[e].jobId IN
            /\ execs'[e].pc = "extract"
            /\ jobs'[jobId].status = "running"
            /\ jobs'[jobId].startedAt = now
            /\ jobs'[jobId].progress =
                    [totalRecords |-> 0, processedRecords |-> 0,
                     successfulRecords |-> 0, failedRecords |-> 0,
                     percentage |-> 0, currentPhase |-> "extract"]]_vars

\* a job that completed before has been started again
C9_Witness ==
    \E e \in ExecIds :
        /\ execs[e].pc = "extract"
        /\ Cardinality(ExecsOf(execs[e].jobId)) = 1
        /\ lastOp = Answer("executeJob", execs[e].jobId, "started")
        /\ jobs[execs[e].jobId].completedAt # NoTime
        /\ jobs[execs[e].jobId].error # NoError
        /\ jobs[execs[e].jobId].progress.percentage = 0
        /\ jobs[execs[e].jobId].progress.totalRecords = 0

PhaseRank(phase) ==
    CASE phase = "extract" -> 1
      [] phase = "transform" -> 2
      [] phase = "load" -> 3
      [] phase = "completed" -> 4

\* the phase a frame is in or enters
PcRank(pc) == IF pc = "idle" THEN 4 ELSE PhaseRank(pc)

\* C10: within one execution the phases run in the order extract, transform,
\* load, one at a time, and the job's currentPhase only moves forward through
\* extract, transform, load, completed while that execution is in flight.
C10_PhasesOnlyMoveForward ==
    [][\A e \in ExecIds :
         InFlight(e) =>
            /\ PcRank(execs'[e].pc) >= PcRank(execs[e].pc)
            /\ PhaseRank(jobs'[execs[e].jobId].progress.currentPhase) >=
                    PhaseRank(jobs[execs[e].jobId].progress.currentPhase)]_vars

(***************************************************************************)
(* Two jobs side by side: the engine after two create_etl_job calls, with  *)
(* the calls and the frame steps of the engine on both job ids.            *)
(***************************************************************************)
PairIds == 1..(MaxJobs + 1)

\* the job specifications of the pair: the first job can fail in transform or
\* in load, the second one delivers to a webhook or has no destination
PairSpecs ==
    {<<BadStepSpec, WebhookSpec>>, <<DatabaseSpec, NoDestinationSpec>>}

InitPair ==
    /\ \E pair \in PairSpecs :
        /\ jobs = [jobId \in PairIds |->
                        NewJob(jobId, IF jobId = 1 THEN pair[1] ELSE pair[2])]
        /\ lastOp = AnswerWith("createETLJob", MaxJobs + 1, "job",
                               NewJob(MaxJobs + 1, pair[2]))
    /\ activeJobs = {}
    /\ execs = [e \in ExecIds |-> IdleExec]
    /\ InitServer
    /\ now = 1

NextPair ==
    \/ Tick
    \/ \E jobId \in PairIds : executeJob(jobId)
    \/ \E jobId \in PairIds : cancelJob(jobId)
    \/ \E e \in ExecIds : extractReturns(e)
    \/ \E e \in ExecIds : extractThrows(e)
    \/ \E e \in ExecIds : transformReturns(e)
    \/ \E e \in ExecIds : transformThrows(e)
    \/ \E e \in ExecIds : fetchReturns(e)
    \/ \E e \in ExecIds : loadReturns(e)
    \/ \E e \in ExecIds : loadThrows(e)

SpecPair == InitPair /\ [][NextPair]_vars

\* the step is a call on jobId or a step of one of its executions
StepOf(jobId) ==
    \/ executeJob(jobId)
    \/ cancelJob(jobId)
    \/ \E e \in ExecIds :
        /\ execs[e].jobId = jobId
        /\ \/ PhaseRaises(e)
           \/ extractReturns(e) \/ transformReturns(e)
           \/ fetchReturns(e) \/ loadReturns(e)

\* C11: an error raised in any phase of one job, and every executeJob or
\* cancelJob call on one job id, leaves the record of every other job, every
\* other job id's membership in the active-job set and the executions of the
\* other jobs unchanged.
C11_OtherJobsUntouched ==
    [][\A jobId \in PairIds :
         StepOf(jobId) =>
            \A other \in PairIds \ {jobId} :
                /\ jobs'[other] = jobs[other]
                /\ other \in activeJobs' <=> other \in activeJobs
                /\ \A e \in ExecIds :
                     execs[e].jobId = other => execs'[e] = execs[e]]_vars

\* the first job has failed in transform while the second one is in its load
\* phase: still running, active and in flight
C11_Witness ==
    /\ DOMAIN jobs = PairIds
    /\ lastOp = Throws("executeJob", 1, Error(UnknownTransformation))
    /\ jobs[1].status = "failed"
    /\ jobs[2].status = "running"
    /\ jobs[2].error = NoError
    /\ 2 \in activeJobs
    /\ \E e \in ExecIds : execs[e].jobId = 2 /\ execs[e].pc = "load"

\* C12: a cancelJob call that returns true writes only the job's status and
\* completedAt and takes the id out of the active-job set; the job's progress
\* record and every other field stay as they were, and the execution in flight
\* is not interrupted: its frame stays in the phase it is in, with its data.
C12_CancelChangesOnlyBookkeeping ==
    [][CancelCall /\ lastOp'.ret = "true" =>
        LET jobId == lastOp'.jobId IN
        /\ jobs' = [jobs EXCEPT
                      ![jobId] = [jobs[jobId] EXCEPT
                                    !.status = jobs'[jobId].status,
                                    !.completedAt = jobs'[jobId].completedAt]]
        /\ jobs'[jobId].progress = jobs[jobId].progress
        /\ activeJobs' = activeJobs \ {jobId}
        /\ \E e \in ExecIds : InFlight(e) /\ execs[e].jobId = jobId
        /\ \A e \in ExecIds :
             /\ execs'[e] = [execs[e] EXCEPT !.interfered = execs'[e].interfered]
             /\ InFlight(e) => InFlight(e)']_vars

\* a job cancelled while its execution waits for an outbound call of the loader
C12_Witness ==
    /\ lastOp.op = "cancelJob"
    /\ lastOp.ret = "true"
    /\ jobs[lastOp.jobId].status = "cancelled"
    /\ jobs[lastOp.jobId].progress.currentPhase = "load"
    /\ jobs[lastOp.jobId].progress.processedRecords = 2
    /\ \E e \in ExecIds :
        /\ execs[e].jobId = lastOp.jobId
        /\ execs[e].pc = "load"
        /\ execs[e].loading = "fetching"

\* the step is one of the query calls
QueryCall == lastOp' # lastOp /\ lastOp'.op \in {"getJob", "getAllJobs", "isJobRunning"}

\* C13: getJob, getAllJobs and isJobRunning change neither the job map, nor a
\* job record, nor the active-job set, nor an execution; getJob hands back the
\* stored job and, for an unknown id, no job; getAllJobs hands back the stored
\* jobs; isJobRunning of an unknown id returns false.
C13_QueriesChangeNothing ==
    [][QueryCall =>
        /\ UNCHANGED <<jobs, activeJobs, execs, now>>
        /\ lastOp'.op = "getJob" =>
            IF lastOp'.jobId \in DOMAIN jobs
            THEN lastOp'.value = jobs[lastOp'.jobId]
            ELSE lastOp'.ret = "undefined" /\ lastOp'.value = Undefined
        /\ lastOp'.op = "getAllJobs" => lastOp'.value.array = jobs
        /\ lastOp'.op = "isJobRunning" =>
            /\ lastOp'.ret = "true" <=> lastOp'.jobId \in activeJobs
            /\ lastOp'.jobId \notin DOMAIN jobs => lastOp'.ret = "false"]_vars

\* getJob asked for an id under which no job is stored
C13_Witness ==
    /\ lastOp = Answer("getJob", 1, "undefined")
    /\ 1 \notin DOMAIN jobs
    /\ activeJobs = {}

\* the step is a submission that was accepted
SubmitCall ==
    /\ lastOp' # lastOp
    /\ \/ lastOp'.op = "createETLJob"
       \/ lastOp'.op = "POST" /\ lastOp'.ret = "200"

\* C14: every accepted submission of a job specification, by the POST handler
\* of the ETL route or by create_etl_job, stores a job under a new id and hands
\* that job back with status pending, also when the job is a one-time job that
\* is executed at once.
C14_SubmittedJobIsPending ==
    [][SubmitCall =>
        LET jobId == lastOp'.jobId IN
        /\ jobId \notin DOMAIN jobs
        /\ jobId \in DOMAIN jobs'
        /\ lastOp'.value = jobs'[jobId]
        /\ lastOp'.value.status = "pending"]_vars

(***************************************************************************)
(* The filter evaluator on its own: applyFilters called on lists of        *)
(* captured requests with filter specifications built from every choice of *)
(* present, empty and absent predicates.                                   *)
(***************************************************************************)
\* length of the request lists applyFilters is called with
MaxRequests == 2

\* an object without properties
EmptyObject == [k \in {} |-> TRUE]

\* a request every predicate below accepts, and requests that fail one of
\* them (method, date range, ip address) or several (content type, user
\* agent, body, headers); r2 has a longer content type and user agent, r6 has
\* no ip property, r7 came with an empty client address and an empty header
MatchingRequest ==
    Spread(Req("r1", "w1", "POST", 3), [ip |-> "ip1", userAgent |-> <<"curl">>])

FilterRequests ==
    {MatchingRequest,
     [MatchingRequest EXCEPT !.id = "r2", !.method = "GET",
                             !.contentType = <<"app", "json">>,
                             !.userAgent = <<"curl", "7">>],
     [MatchingRequest EXCEPT !.id = "r3", !.timestamp = 5],
     [MatchingRequest EXCEPT !.id = "r4", !.ip = "ip2"],
     DeleteField(DeleteField([MatchingRequest EXCEPT !.id = "r5", !.body = <<"y">>,
                                                     !.headers = [h2 |-> <<"z">>]],
                             "userAgent"),
                 "contentType"),
     DeleteField([MatchingRequest EXCEPT !.id = "r6"], "ip"),
     [MatchingRequest EXCEPT !.id = "r7", !.ip = "", !.headers = [h1 |-> <<>>]]}

\* for each predicate of ETLFilters: absent, empty where it is a list, present;
\* the bounds of dateRange are times or malformed dates
FilterParts ==
    <<{EmptyObject} \cup
        {[dateRange |-> [start |-> start, end |-> end]] :
            start \in {NaN, 3, 4}, end \in {NaN, 4, 5}},
      {EmptyObject, [methods |-> <<>>], [methods |-> <<"POST">>]},
      {EmptyObject, [contentTypes |-> << <<"json">> >>]},
      {EmptyObject, [ipAddresses |-> <<>>], [ipAddresses |-> <<"ip1">>],
       [ipAddresses |-> <<"ip2", "">>]},
      {EmptyObject, [userAgents |-> << <<"curl">> >>]},
      {EmptyObject, [bodyContains |-> <<"x">>]},
      {EmptyObject,
       [headerConditions |-> <<>>],
       [headerConditions |->
            <<[key |-> "h1", operator |-> "equals", value |-> <<"a", "b">>]>>],
       [headerConditions |->
            <<[key |-> "h1", operator |-> "equals", value |-> <<>>]>>],
       [headerConditions |->
            <<[key |-> "h1", operator |-> "equals", value |-> <<"a">>],
              [key |-> "h2", operator |-> "equals", value |-> <<"z">>]>>],
       [headerConditions |->
            <<[key |-> "h1", operator |-> "contains", value |-> <<"b">>],
              [key |-> "h1", operator |-> "regex",
               value |-> [valid |-> TRUE, literal |-> <<"a">>]]>>]}>>

\* the objects with one choice of each part from part i on
RECURSIVE CombineParts(_, _)
CombineParts(parts, i) ==
    IF i > Len(parts) THEN {EmptyObject}
    ELSE {Spread(a, b) : a \in parts[i], b \in CombineParts(parts, i + 1)}

\* the filters argument: left out, or one of the objects
FilterArguments == {NotDefined} \cup {Defined(f) : f \in CombineParts(FilterParts, 1)}

SeqsUpTo(S, n) == UNION {[1..k -> S] : k \in 0..n}

\* a call that has been made, and that call after it returned
Called(op, args) ==
    [op |-> op, jobId |-> 0, ret |-> "called", args |-> args,
     value |-> Undefined, thrown |-> Undefined]
ReturnedFrom(call, value) == [call EXCEPT !.ret = "returned", !.value = value]

InitFilter ==
    /\ jobs = <<>>
    /\ activeJobs = {}
    /\ execs = [e \in ExecIds |-> IdleExec]
    /\ InitServer
    /\ now = 1
    /\ \E requests \in SeqsUpTo(FilterRequests, MaxRequests), filters \in FilterArguments :
        lastOp = Called("applyFilters", [requests |-> requests, filters |-> filters])

\* the call of applyFilters returns
applyFiltersReturns ==
    /\ lastOp.op = "applyFilters"
    /\ lastOp.ret = "called"
    /\ lastOp' = ReturnedFrom(lastOp,
                              [array |-> applyFilters(lastOp.args.requests,
                                                      lastOp.args.filters)])
    /\ UNCHANGED <<jobs, activeJobs, execs, now, serverVars>>

NextFilter == applyFiltersReturns

SpecFilter == InitFilter /\ [][NextFilter]_vars

\* the predicates of a filter specification that are list valued
ListPredicates ==
    {"methods", "contentTypes", "ipAddresses", "userAgents", "bodyContains",
     "headerConditions"}

\* the filter specification with the predicate named key alone
OnlyPredicate(filters, key) == Defined([k \in {key} |-> filters[k]])

\* request is kept when it is filtered on its own
KeptAlone(request, filters) == applyFilters(<<request>>, filters) = <<request>>

\* C15: applyFilters keeps a record exactly when every predicate present in
\* the filter specification, taken on its own, keeps it, and the kept records
\* stay in their order; a kept record has a listed method, a timestamp within
\* the date range and a listed ip address where these predicates are present
\* and not empty; an empty list predicate can be left out without changing the
\* result; with methods absent or empty the result does not depend on the
\* method of a record; without a filter specification every record is kept.
C15_FiltersAreAConjunction ==
    lastOp.op = "applyFilters" /\ lastOp.ret = "returned" =>
        LET requests == lastOp.args.requests
            filters == lastOp.args.filters
            kept == lastOp.value.array
            KeptByEvery(r) ==
                \A key \in DOMAIN filters.value :
                    KeptAlone(r, OnlyPredicate(filters.value, key))
        IN
        IF ~filters.defined THEN kept = requests
        ELSE
        /\ kept = SelectSeq(requests, KeptByEvery)
        /\ \A i \in 1..Len(kept) :
            /\ Has(filters.value, "methods") /\ filters.value.methods # <<>> =>
                    ArrayIncludes(filters.value.methods, kept[i].method)
            /\ Has(filters.value, "dateRange") =>
                    /\ filters.value.dateRange.start # NaN =>
                            kept[i].timestamp >= filters.value.dateRange.start
                    /\ filters.value.dateRange.end # NaN =>
                            kept[i].timestamp <= filters.value.dateRange.end
            /\ Has(filters.value, "ipAddresses") /\ filters.value.ipAddresses # <<>> =>
                    ArrayIncludes(filters.value.ipAddresses, kept[i].ip)
        /\ \A key \in DOMAIN filters.value \cap ListPredicates :
                filters.value[key] = <<>> =>
                    applyFilters(requests, Defined(DeleteField(filters.value, key))) = kept
        /\ ~Has(filters.value, "methods") \/ filters.value.methods = <<>> =>
                \A i \in 1..Len(requests), method \in {"POST", "GET", "PUT"} :
                    KeptAlone([requests[i] EXCEPT !.method = method], filters)
                        <=> KeptAlone(requests[i], filters)

\* two predicates are present next to an empty one; the first record passes
\* both, the second one fails the method predicate alone and is dropped
C15_Witness ==
    /\ lastOp.op = "applyFilters"
    /\ lastOp.ret = "returned"
    /\ lastOp.args.filters =
            Defined([methods |-> <<"POST">>, ipAddresses |-> <<>>,
                     dateRange |-> [start |-> 3, end |-> 4]])
    /\ Len(lastOp.args.requests) = 2
    /\ lastOp.args.requests[1] = MatchingRequest
    /\ lastOp.args.requests[2].method = "GET"
    /\ lastOp.args.requests[2].timestamp = 3
    /\ lastOp.value.array = <<MatchingRequest>>

(***************************************************************************)
(* The transformation pipeline on its own: transform called with lists of  *)
(* steps of every type, order value and enabled flag.                      *)
(***************************************************************************)
\* length of the step lists transform is called with
MaxSteps == 3
\* the order values of the steps
MaxOrder == 3

\* steps that do not commute: a rename of the field the filter step reads;
\* split is not a transformation type
StepConfigs ==
    [map |-> [fieldMappings |-> << <<"method", "verb">> >>],
     filter |-> [field |-> "method", value |-> "POST"],
     split |-> EmptyObject]

PipelineSteps ==
    {Step(type, type, StepConfigs[type], enabled, order) :
        type \in DOMAIN StepConfigs, enabled \in BOOLEAN, order \in 1..MaxOrder}

\* the transformations argument: left out, or a list of steps
TransformationArguments ==
    {NotDefined} \cup {Defined(steps) : steps \in SeqsUpTo(PipelineSteps, MaxSteps)}

InitTransform ==
    /\ jobs = <<>>
    /\ activeJobs = {}
    /\ execs = [e \in ExecIds |-> IdleExec]
    /\ InitServer
    /\ now = 1
    /\ \E data \in {getRequests("w1"), getRequests("w2")},
          transformations \in TransformationArguments :
        lastOp = Called("transform", [data |-> data, transformations |-> transformations])

\* the call of transform returns or throws
transformSettles ==
    /\ lastOp.op = "transform"
    /\ lastOp.ret = "called"
    /\ lastOp' = ReturnedFrom(lastOp,
                              transform(lastOp.args.data, lastOp.args.transformations, now))
    /\ UNCHANGED <<jobs, activeJobs, execs, now, serverVars>>

NextTransform == transformSettles

SpecTransform == InitTransform /\ [][NextTransform]_vars

\* the places of the enabled steps in the list
EnabledPlaces(steps) == {i \in 1..Len(steps) : steps[i].enabled}

\* the enabled steps that run before the step at place i: those of a lower
\* order value, and those of the same order value that stand before it
RunBefore(steps, i) ==
    {j \in EnabledPlaces(steps) :
        \/ steps[j].order < steps[i].order
        \/ steps[j].order = steps[i].order /\ j < i}

\* the enabled steps in the order in which they have to run
ExpectedRun(steps) ==
    [p \in 1..Cardinality(EnabledPlaces(steps)) |->
        steps[CHOOSE i \in EnabledPlaces(steps) : Cardinality(RunBefore(steps, i)) = p - 1]]

\* each step of run from step i on applied to what the step before it gave,
\* up to the first step that throws
RECURSIVE ApplyInTurn(_, _, _, _)
ApplyInTurn(outcome, run, i, time) ==
    IF i > Len(run) \/ ~outcome.ok THEN outcome
    ELSE ApplyInTurn(applyTransformation(outcome.value, run[i], time), run, i + 1, time)

\* C16: transform applies exactly the enabled steps, in ascending order value
\* with steps of equal order value in their order in the list, each step to
\* the output of the step before it; the disabled steps have no effect on the
\* outcome; steps with order values 2, 1, 3 of which the third is disabled run
\* as the second, then the first.
C16_PipelineRunsEnabledStepsInOrder ==
    lastOp.op = "transform" /\ lastOp.ret = "returned" =>
        LET data == lastOp.args.data
            transformations == lastOp.args.transformations
            outcome == lastOp.value
        IN
        IF ~transformations.defined THEN outcome = Returned(data)
        ELSE
        LET steps == transformations.value
            IsEnabled(t) == t.enabled
        IN
        /\ outcome = ApplyInTurn(Returned(data), ExpectedRun(steps), 1, now)
        /\ outcome = transform(data, Defined(SelectSeq(steps, IsEnabled)), now)
        /\ /\ Len(steps) = 3
           /\ <<steps[1].order, steps[2].order, steps[3].order>> = <<2, 1, 3>>
           /\ <<steps[1].enabled, steps[2].enabled, steps[3].enabled>> = <<TRUE, TRUE, FALSE>>
           /\ applyTransformation(data, steps[2], now).ok
           => outcome = applyTransformation(applyTransformation(data, steps[2], now).value,
                                            steps[1], now)

\* the steps of the example: a filter of order 2, a rename of order 1 of the
\* field the filter reads, a disabled step of order 3 that would throw; the
\* rename runs first, so that the filter finds no record to keep
C16_Witness ==
    /\ lastOp.op = "transform"
    /\ lastOp.ret = "returned"
    /\ lastOp.args.data = getRequests("w1")
    /\ lastOp.args.transformations =
            Defined(<<Step("filter", "filter", StepConfigs.filter, TRUE, 2),
                      Step("map", "map", StepConfigs.map, TRUE, 1),
                      Step("split", "split", StepConfigs.split, FALSE, 3)>>)
    /\ lastOp.value = Returned(<<>>)

\* the types applyTransformation has a case for
KnownTypes == {"filter", "map", "aggregate", "enrich", "validate"}

\* the job has an enabled step that throws: one of an unknown type
HasFailingStep(job) ==
    /\ Has(job, "transformations")
    /\ \E i \in 1..Len(job.transformations) :
        /\ job.transformations[i].enabled
        /\ job.transformations[i].type \notin KnownTypes

\* C17: when an enabled step of the pipeline raises an error, an unknown step
\* type included, the transform phase throws that error: no later step is
\* applied and the execution never enters the load phase, so that nothing is
\* sent to the destination, and the call ends with the job failed and the
\* message of the error recorded.
C17_FailedStepStopsTheRun ==
    [][/\ \A e \in ExecIds :
            transformThrows(e) =>
                LET jobId == execs[e].jobId IN
                /\ execs[e].loading = "none"
                /\ execs[e].fetches = 0
                /\ execs[e].sent = <<>>
                /\ ~InFlight(e)'
                /\ jobs'[jobId].status = "failed"
                /\ jobs'[jobId].error = execs[e].transformed.error.message
                /\ lastOp' = Throws("executeJob", jobId, execs[e].transformed.error)
       /\ \A e \in ExecIds :
            InFlight(e)' /\ HasFailingStep(jobs'[execs'[e].jobId]) =>
                /\ execs'[e].pc \in {"extract", "transform"}
                /\ execs'[e].pc = "transform" =>
                        execs'[e].transformed = Thrown(Error(UnknownTransformation))
                /\ execs'[e].sent = <<>>]_vars

\* the job whose second step is of an unknown type has failed in transform:
\* five records extracted, none processed, none sent to its webhook
C17_Witness ==
    /\ lastOp.op = "executeJob"
    /\ lastOp.thrown = Error(UnknownTransformation)
    /\ HasFailingStep(jobs[lastOp.jobId])
    /\ Has(jobs[lastOp.jobId], "destination")
    /\ jobs[lastOp.jobId].status = "failed"
    /\ jobs[lastOp.jobId].error = UnknownTransformation
    /\ jobs[lastOp.jobId].progress.currentPhase = "transform"
    /\ jobs[lastOp.jobId].progress.totalRecords = 5
    /\ jobs[lastOp.jobId].progress.processedRecords = 0
    /\ jobs[lastOp.jobId].progress.percentage = 0

\* the destination types load has a case for
SupportedDestinations == {"webhook", "file", "email", "api"}

\* the job has a destination of a type the loader does not support
HasUnsupportedDestination(job) ==
    Has(job, "destination") /\ job.destination.type \notin SupportedDestinations

\* C18: a job whose destination type is database, or any type other than
\* webhook, file, email and api, fails in its load phase with the error
\* 'Unsupported destination type': an execution of it that reaches load sends
\* nothing and ends by throwing that error with the job failed; the job is
\* never completed and its percentage never becomes 100.
C18_UnsupportedDestinationFails ==
    [][\A e \in ExecIds :
         InFlight(e) /\ HasUnsupportedDestination(jobs[execs[e].jobId]) =>
            LET jobId == execs[e].jobId IN
            /\ execs[e].pc = "load" =>
                /\ execs[e].loading = "thrown"
                /\ execs[e].sent = <<>>
                /\ ~fetchReturns(e)
                /\ ~loadReturns(e)
            /\ loadThrows(e) =>
                /\ lastOp' = Throws("executeJob", jobId, Error(UnsupportedDestination))
                /\ jobs'[jobId].status = "failed"
                /\ jobs'[jobId].error = UnsupportedDestination
            /\ jobs'[jobId].status # "completed"
            /\ jobs'[jobId].progress.percentage # 100
            /\ jobs'[jobId].progress.currentPhase # "completed"]_vars

\* the job with the database destination has failed in load: six records
\* extracted and processed, none delivered
C18_Witness ==
    /\ lastOp.op = "executeJob"
    /\ lastOp.thrown = Error(UnsupportedDestination)
    /\ jobs[lastOp.jobId].destination.type = "database"
    /\ jobs[lastOp.jobId].status = "failed"
    /\ jobs[lastOp.jobId].error = UnsupportedDestination
    /\ jobs[lastOp.jobId].progress.processedRecords = 6
    /\ jobs[lastOp.jobId].progress.successfulRecords = 0
    /\ jobs[lastOp.jobId].progress.percentage = 0

\* C19: for a job without a destination the load phase sends nothing and
\* raises no error, and the execution ends with the job completed and
\* successfulRecords equal to processedRecords.
C19_NoDestinationCompletes ==
    [][\A e \in ExecIds :
         InFlight(e) /\ ~Has(jobs[execs[e].jobId], "destination") =>
            LET jobId == execs[e].jobId IN
            /\ execs[e].pc = "load" =>
                /\ execs[e].loading = "returned"
                /\ execs[e].sent = <<>>
                /\ ~fetchReturns(e)
                /\ ~loadThrows(e)
            /\ loadReturns(e) =>
                /\ jobs'[jobId].status = "completed"
                /\ jobs'[jobId].progress.successfulRecords =
                        jobs'[jobId].progress.processedRecords]_vars

\* the job delivers to a webhook
HasWebhookDestination(job) ==
    Has(job, "destination") /\ job.destination.type = "webhook"

\* C20: for a webhook destination the loader issues one outbound call for each
\* record, in the order of the records, and the next call only after the one
\* before it has returned; it returns when the call for the last record has
\* returned; when a call fails the loader issues no further call and does not
\* repeat the failed one: the error ends the execution, and the job is failed.
C20_WebhookDeliveryInOrder ==
    [][\A e \in ExecIds :
         /\ InFlight(e) /\ execs[e].pc = "load"
         /\ HasWebhookDestination(jobs[execs[e].jobId])
         =>
            LET jobId == execs[e].jobId
                data == execs[e].transformedData
            IN
            /\ execs[e].fetches <= Len(data)
            /\ execs[e].sent = [k \in 1..execs[e].fetches |-> JSONStringify(data[k])]
            /\ execs[e].loading = "fetching" <=> Len(data) > 0
            /\ InFlight(e)' =>
                /\ execs'[e].transformedData = data
                /\ execs'[e].fetches \in {execs[e].fetches, execs[e].fetches + 1}
                /\ execs'[e].fetches = execs[e].fetches + 1 <=> fetchReturns(e)
            /\ loadReturns(e) => execs[e].fetches = Len(data)
            /\ loadThrows(e) =>
                /\ ~InFlight(e)'
                /\ lastOp' = Throws("executeJob", jobId, Error(FetchFailed))
                /\ jobs'[jobId].status = "failed"
                /\ jobs'[jobId].error = FetchFailed]_vars

\* an outbound call of the job that sends two groups to a webhook has failed:
\* the job is failed with the error of the call
C20_Witness ==
    /\ lastOp.op = "executeJob"
    /\ lastOp.thrown = Error(FetchFailed)
    /\ HasWebhookDestination(jobs[lastOp.jobId])
    /\ jobs[lastOp.jobId].status = "failed"
    /\ jobs[lastOp.jobId].error = FetchFailed
    /\ jobs[lastOp.jobId].progress.processedRecords = 2
    /\ jobs[lastOp.jobId].progress.successfulRecords = 0
    /\ ExecsOf(lastOp.jobId) = {}

\* the records of the endpoint the job names, or of all endpoints
RecordsInScope(job) ==
    IF Has(job, "webhookId") THEN getRequests(job.webhookId)
    ELSE RequestsOfConfigs(getAllWebhookConfigs, 1)

\* C21: the extract phase of a job with a webhookId reads the records of that
\* endpoint only, the extract phase of a job without one reads the records of
\* all endpoints of getAllWebhookConfigs; in both cases the phase returns the
\* records that pass the job's filters and progress.totalRecords is their
\* number.
C21_ExtractReadsTheJobsEndpoint ==
    [][\A e \in ExecIds :
         extractReturns(e) =>
            LET job == jobs[execs[e].jobId]
                passing == applyFilters(RecordsInScope(job), Optional(job, "filters"))
            IN
            /\ execs'[e].extractedData = passing
            /\ jobs'[execs[e].jobId].progress.totalRecords = Len(passing)]_vars

\* the job specification is malformed: a step or a destination of a type
\* that does not exist
Malformed(job) == HasFailingStep(job) \/ HasUnsupportedDestination(job)

\* C22: a job specification with a malformed filter specification, step or
\* destination, such as a step or destination of an unknown type, is rejected
\* when it is submitted and never reaches execution: no job with such a
\* specification is ever running, and no execution of one is in flight.
C22_MalformedSpecNeverRuns ==
    /\ \A jobId \in DOMAIN jobs :
            Malformed(jobs[jobId]) => jobs[jobId].status # "running"
    /\ \A e \in ExecIds : InFlight(e) => ~Malformed(jobs[execs[e].jobId])

(***************************************************************************)
(* The engine when every storage read and every outbound call returns or   *)
(* fails in the end: the execution suspended in a frame is resumed.        *)
(***************************************************************************)
\* a step of the execution in frame e
FrameStep(e) ==
    \/ extractThrows(e) \/ extractReturns(e)
    \/ transformThrows(e) \/ transformReturns(e)
    \/ fetchReturns(e) \/ loadReturns(e) \/ loadThrows(e)

Fairness == \A e \in ExecIds : WF_vars(FrameStep(e))

\* the calls that create, start and cancel jobs, and the steps of the frames
NextEngine ==
    \/ \E spec \in JobSpecs : createETLJob(spec)
    \/ \E jobId \in JobIds : executeJob(jobId)
    \/ \E jobId \in JobIds : cancelJob(jobId)
    \/ \E e \in ExecIds : FrameStep(e)

FairSpec == Init /\ [][NextEngine]_vars /\ Fairness

\* C23: when every storage read and every outbound call returns or fails in
\* the end, every execution ends, an id in the active-job set leaves it, so
\* that the job can be started again, and a running job becomes completed,
\* failed or cancelled.
C23_EveryExecutionEnds ==
    /\ \A e \in ExecIds : InFlight(e) ~> ~InFlight(e)
    /\ \A jobId \in JobIds :
        /\ (jobId \in activeJobs) ~> (jobId \notin activeJobs /\ ~AlreadyRunning(jobId))
        /\ (jobId \in DOMAIN jobs /\ jobs[jobId].status = "running")
                ~> (jobId \in DOMAIN jobs /\ jobs[jobId].status \in Terminal)

\* a job that was run to its end and can be started again
C23_Witness ==
    \E jobId \in DOMAIN jobs :
        /\ jobs[jobId].status = "completed"
        /\ jobs[jobId].startedAt # NoTime
        /\ jobId \notin activeJobs
        /\ ExecsOf(jobId) = {}
        /\ lastOp = Answer("executeJob", jobId, "resolved")

(***************************************************************************)
(* The single predicates of the filter evaluator.                          *)
(***************************************************************************)
\* the property of a record that a list predicate reads
FieldOf == [contentTypes |-> "contentType", ipAddresses |-> "ip", userAgents |-> "userAgent"]

\* the record's field holds a listed value: the ip as a whole, a content type
\* or user agent as a part of the text
ListsValue(request, key, list) ==
    IF key = "ipAddresses" THEN ArrayIncludes(list, request.ip)
    ELSE \E j \in 1..Len(list) : Includes(request[FieldOf[key]], list[j])

\* C24: under a non-empty contentTypes, ipAddresses or userAgents predicate a
\* record without the field the predicate reads does not match, and a record
\* with the field matches exactly when its ip is a listed address, or its
\* content type or user agent contains a listed value.
C24_FieldPredicates ==
    lastOp.op = "applyFilters" /\ lastOp.ret = "returned" /\ lastOp.args.filters.defined =>
        LET requests == lastOp.args.requests
            filters == lastOp.args.filters.value
        IN \A key \in DOMAIN filters \cap DOMAIN FieldOf :
             filters[key] # <<>> =>
                \A i \in 1..Len(requests) :
                    LET alone == KeptAlone(requests[i], OnlyPredicate(filters, key))
                    IN IF ~Has(requests[i], FieldOf[key]) THEN ~alone
                       ELSE alone <=> ListsValue(requests[i], key, filters[key])

\* C25: a header condition with operator equals is satisfied exactly when the
\* record has a header under the name key whose value equals the condition
\* value; a record without the header named by one of the conditions does not
\* match the filter specification, whatever else it holds.
C25_HeaderEquals ==
    lastOp.op = "applyFilters" /\ lastOp.ret = "returned" /\ lastOp.args.filters.defined =>
        LET requests == lastOp.args.requests
            filters == lastOp.args.filters.value
        IN Has(filters, "headerConditions") =>
            \A c \in 1..Len(filters.headerConditions), i \in 1..Len(requests) :
                LET condition == filters.headerConditions[c]
                    headers == requests[i].headers
                IN /\ condition.operator = "equals" =>
                        (KeptAlone(requests[i], Defined([headerConditions |-> <<condition>>]))
                            <=> /\ Has(headers, condition.key)
                                /\ headers[condition.key] = condition.value)
                   /\ ~Has(headers, condition.key) =>
                        ~KeptAlone(requests[i], lastOp.args.filters)

\* C26: under a dateRange predicate a record passes exactly when its timestamp
\* is not before a start that parses and not after an end that parses, both
\* bounds included; a bound that does not parse rejects no record.
C26_DateRangeInclusive ==
    lastOp.op = "applyFilters" /\ lastOp.ret = "returned" /\ lastOp.args.filters.defined =>
        LET requests == lastOp.args.requests
            filters == lastOp.args.filters.value
        IN Has(filters, "dateRange") =>
            \A i \in 1..Len(requests) :
                KeptAlone(requests[i], OnlyPredicate(filters, "dateRange"))
                    <=> /\ \/ filters.dateRange.start = NaN
                           \/ filters.dateRange.start <= requests[i].timestamp
                        /\ \/ filters.dateRange.end = NaN
                           \/ requests[i].timestamp <= filters.dateRange.end

\* the records at both bounds of the range pass; under a range whose start
\* does not parse the record after the end is dropped
C26_Witness ==
    /\ lastOp.op = "applyFilters"
    /\ lastOp.ret = "returned"
    /\ Len(lastOp.args.requests) = 2
    /\ lastOp.args.requests[1].timestamp = 3
    /\ lastOp.args.requests[2].timestamp = 5
    /\ \/ /\ lastOp.args.filters = Defined([dateRange |-> [start |-> 3, end |-> 5]])
          /\ lastOp.value.array = lastOp.args.requests
       \/ /\ lastOp.args.filters = Defined([dateRange |-> [start |-> NaN, end |-> 4]])
          /\ lastOp.value.array = <<lastOp.args.requests[1]>>

(***************************************************************************)
(* One transformation step on its own: applyTransformation called with a   *)
(* list of records and a step of each type.                                *)
(***************************************************************************)
\* length of the record lists applyTransformation is called with
MaxItems == 3

\* records with and without the fields the steps read; status holds a falsy
\* number in one record and null in another
StepItems ==
    {[method |-> "GET", status |-> "200"],
     [method |-> "GET", status |-> "0"],
     [method |-> "POST", status |-> "null"],
     [method |-> "POST"],
     [status |-> "200"]}

\* the config objects of each step type; split is not a transformation type
TypeConfigs ==
    [filter |-> {[field |-> "method", value |-> "GET"],
                 [field |-> "status", value |-> "200"],
                 [field |-> "status", value |-> "0"],
                 [field |-> "status"],
                 [value |-> "GET"]},
     map |-> {[fieldMappings |-> << <<"method", "verb">> >>],
              [fieldMappings |-> << <<"method", "status">> >>],
              [fieldMappings |-> << <<"method", "method">> >>],
              [fieldMappings |-> << <<"method", "verb">>, <<"verb", "status">> >>],
              [fieldMappings |-> << <<"status", "code">>, <<"method", "status">> >>],
              EmptyObject},
     aggregate |-> {[groupBy |-> "method"],
                    [groupBy |-> "status", includeItems |-> "true"],
                    [groupBy |-> "method", includeItems |-> "false"],
                    [includeItems |-> "true"]},
     enrich |-> {[additionalFields |-> [source |-> "etl", status |-> "done"]],
                 EmptyObject},
     validate |-> {[requiredFields |-> <<"method", "status">>],
                   [requiredFields |-> <<"status">>],
                   [requiredFields |-> <<>>],
                   EmptyObject},
     split |-> {EmptyObject}]

StepArguments ==
    UNION {{Step(type, type, config, TRUE, 1) : config \in TypeConfigs[type]} :
                type \in DOMAIN TypeConfigs}

InitStep ==
    /\ jobs = <<>>
    /\ activeJobs = {}
    /\ execs = [e \in ExecIds |-> IdleExec]
    /\ InitServer
    /\ now \in 1..MaxTime
    /\ \E data \in SeqsUpTo(StepItems, MaxItems), transformation \in StepArguments :
        lastOp = Called("applyTransformation",
                        [data |-> data, transformation |-> transformation])

\* the call of applyTransformation returns or throws
applyTransformationSettles ==
    /\ lastOp.op = "applyTransformation"
    /\ lastOp.ret = "called"
    /\ lastOp' = ReturnedFrom(lastOp,
                              applyTransformation(lastOp.args.data,
                                                  lastOp.args.transformation, now))
    /\ UNCHANGED <<jobs, activeJobs, execs, now, serverVars>>

\* the same step is applied once more, to what its first application
\* returned, at that time or later
applyTransformationAgain ==
    /\ lastOp.op = "applyTransformation"
    /\ lastOp.ret = "returned"
    /\ lastOp.value.ok
    /\ ~Has(lastOp.args, "first")
    /\ lastOp' = Called("applyTransformation",
                        [data |-> lastOp.value.value,
                         transformation |-> lastOp.args.transformation,
                         first |-> lastOp.args.data])
    /\ now' \in now..MaxTime
    /\ UNCHANGED <<jobs, activeJobs, execs, serverVars>>

NextStep == applyTransformationSettles \/ applyTransformationAgain

SpecStep == InitStep /\ [][NextStep]_vars

\* a step of the given type has returned
StepReturned(type) ==
    /\ lastOp.op = "applyTransformation"
    /\ lastOp.ret = "returned"
    /\ lastOp.args.transformation.type = type
    /\ lastOp.value.ok

\* the place of the first record of data that has the group key
FirstWith(data, groupBy, key) ==
    CHOOSE i \in 1..Len(data) :
        /\ GroupKey(data[i], groupBy) = key
        /\ \A j \in 1..(i - 1) : GroupKey(data[j], groupBy) # key

\* the sum of the count fields of the summaries from place g on
RECURSIVE SumOfCounts(_, _)
SumOfCounts(summaries, g) ==
    IF g > Len(summaries) THEN 0 ELSE summaries[g].count + SumOfCounts(summaries, g + 1)

\* C27: an aggregate step with groupBy set returns one summary per distinct
\* value of the groupBy field, in the order in which the values first occur in
\* the input; the count of a summary is the number of input records with that
\* value and the counts add up to the size of the input; a summary has items,
\* the records of its group in input order, exactly when includeItems is set;
\* without groupBy the step returns its input.
C27_AggregateGroups ==
    StepReturned("aggregate") =>
        LET data == lastOp.args.data
            config == lastOp.args.transformation.config
            summaries == lastOp.value.value
            groupKeys == {GroupKey(data[i], config.groupBy) : i \in 1..Len(data)}
            KeyOf(g) == GroupKey(summaries[g], config.groupBy)
            InGroup(g) == {i \in 1..Len(data) : GroupKey(data[i], config.groupBy) = KeyOf(g)}
        IN
        IF ~Has(config, "groupBy") THEN summaries = data
        ELSE
        /\ Len(summaries) = Cardinality(groupKeys)
        /\ \A g \in 1..Len(summaries) :
            /\ KeyOf(g) \in groupKeys
            /\ summaries[g].count = Cardinality(InGroup(g))
            /\ \A h \in 1..(g - 1) :
                    FirstWith(data, config.groupBy, KeyOf(h))
                        < FirstWith(data, config.groupBy, KeyOf(g))
            /\ IF Has(config, "includeItems") /\ config.includeItems = "true"
               THEN /\ Has(summaries[g], "items")
                    /\ Len(summaries[g].items) = Cardinality(InGroup(g))
                    /\ \A n \in 1..Len(summaries[g].items) :
                        \E i \in InGroup(g) :
                            /\ summaries[g].items[n] = data[i]
                            /\ Cardinality({j \in InGroup(g) : j < i}) = n - 1
               ELSE ~Has(summaries[g], "items")
        /\ SumOfCounts(summaries, 1) = Len(data)

\* two GET records and then a POST record, grouped by method
C27_Witness ==
    /\ StepReturned("aggregate")
    /\ lastOp.args.transformation.config = [groupBy |-> "method"]
    /\ lastOp.args.data =
            <<[method |-> "GET", status |-> "200"], [method |-> "GET", status |-> "0"],
              [method |-> "POST"]>>
    /\ lastOp.value.value =
            <<[method |-> "GET", count |-> 2], [method |-> "POST", count |-> 1]>>

\* C28: a filter step whose config holds both field and value keeps exactly
\* the records whose value of that field equals config.value, whatever the
\* value is, falsy ones included; a filter step whose config lacks field or
\* value keeps every record.
C28_FilterStepKeepsEqual ==
    StepReturned("filter") =>
        LET data == lastOp.args.data
            config == lastOp.args.transformation.config
            Equal(item) == Has(item, config.field) /\ item[config.field] = config.value
        IN IF Has(config, "field") /\ Has(config, "value")
           THEN lastOp.value.value = SelectSeq(data, Equal)
           ELSE lastOp.value.value = data

\* the record after the first i pairs of fieldMappings were processed
AfterPairs(item, fieldMappings, i) == RenameFields(item, SubSeq(fieldMappings, 1, i), 1)

\* what one pair is to leave behind: newField holds the former value of
\* oldField and oldField is gone; a record without oldField stays as it is
Renamed(before, after, oldField, newField) ==
    IF Has(before, oldField)
    THEN /\ Has(after, newField) /\ after[newField] = before[oldField]
         /\ ~Has(after, oldField)
    ELSE after = before

\* as Renamed, for a pair that names one field twice: the field is gone
RenamedOrRemoved(before, after, oldField, newField) ==
    IF Has(before, oldField)
    THEN /\ newField # oldField => Has(after, newField) /\ after[newField] = before[oldField]
         /\ ~Has(after, oldField)
    ELSE after = before

\* a map step returns one record per input record, in the same order, and
\* every pair of fieldMappings, taken in the order of the config, leaves
\* behind what Post says
MapStepMeets(Post(_, _, _, _)) ==
    StepReturned("map") =>
        LET data == lastOp.args.data
            config == lastOp.args.transformation.config
            mapped == lastOp.value.value
        IN /\ Len(mapped) = Len(data)
           /\ \A n \in 1..Len(data) :
                IF ~Has(config, "fieldMappings") THEN mapped[n] = data[n]
                ELSE /\ mapped[n] = AfterPairs(data[n], config.fieldMappings,
                                               Len(config.fieldMappings))
                     /\ \A i \in 1..Len(config.fieldMappings) :
                            Post(AfterPairs(data[n], config.fieldMappings, i - 1),
                                 AfterPairs(data[n], config.fieldMappings, i),
                                 config.fieldMappings[i][1], config.fieldMappings[i][2])

\* C29 as stated: a map step returns one record per input record, in the same
\* order; after each pair (oldField, newField), in the order of the config, a
\* record that had oldField has newField with the former value of oldField
\* and has no oldField, and a record without oldField is unchanged.
C29_MapRenamesFields == MapStepMeets(Renamed)

\* C29, amended: as stated for the pairs whose newField differs from oldField;
\* after a pair that names the same field as oldField and as newField a
\* record that had the field no longer has it.
C29_MapRenamesOrRemoves == MapStepMeets(RenamedOrRemoved)

\* method is renamed to verb and then verb to status: the record ends with
\* the method in status, and with neither method nor verb
C29_Witness ==
    /\ StepReturned("map")
    /\ lastOp.args.transformation.config =
            [fieldMappings |-> << <<"method", "verb">>, <<"verb", "status">> >>]
    /\ lastOp.args.data = <<[method |-> "GET", status |-> "200"], [status |-> "200"]>>
    /\ lastOp.value.value = <<[status |-> "GET"], [status |-> "200"]>>

\* C30: a validate step keeps exactly the records that have every field named
\* in config.requiredFields with a value other than null, in their order;
\* without requiredFields it keeps every record.
C30_ValidateKeepsComplete ==
    StepReturned("validate") =>
        LET data == lastOp.args.data
            config == lastOp.args.transformation.config
            kept == lastOp.value.value
            Complete(item) ==
                \A f \in {config.requiredFields[i] : i \in 1..Len(config.requiredFields)} :
                    Has(item, f) /\ item[f] # "null"
            complete == {n \in 1..Len(data) : Complete(data[n])}
        IN IF ~Has(config, "requiredFields") THEN kept = data
           ELSE /\ Len(kept) = Cardinality(complete)
                /\ \A k \in 1..Len(kept) :
                    \E n \in complete :
                        /\ kept[k] = data[n]
                        /\ Cardinality({m \in complete : m < n}) = k - 1

\* method and status are required: the record with a null status and the
\* record without a status are dropped, the complete one between them is kept
C30_Witness ==
    /\ StepReturned("validate")
    /\ lastOp.args.transformation.config = [requiredFields |-> <<"method", "status">>]
    /\ lastOp.args.data =
            <<[method |-> "POST", status |-> "null"], [method |-> "GET", status |-> "0"],
              [method |-> "POST"]>>
    /\ lastOp.value.value = <<[method |-> "GET", status |-> "0"]>>

\* C31: when an enrich step is applied to what its first application
\* returned, the result has as many records, record for record the fields of
\* the first result other than enrichedAt, which are the record's fields with
\* additionalFields merged over them, and enrichedAt is the time of the
\* second application.
C31_EnrichTwice ==
    StepReturned("enrich") /\ Has(lastOp.args, "first") =>
        LET input == lastOp.args.first
            once == lastOp.args.data
            twice == lastOp.value.value
            config == lastOp.args.transformation.config
            merged(item) == IF Has(config, "additionalFields")
                            THEN Spread(item, config.additionalFields) ELSE item
        IN /\ Len(once) = Len(input) /\ Len(twice) = Len(input)
           /\ \A n \in 1..Len(input) :
                /\ DeleteField(twice[n], "enrichedAt") = DeleteField(once[n], "enrichedAt")
                /\ DeleteField(once[n], "enrichedAt") = DeleteField(merged(input[n]), "enrichedAt")
                /\ Has(twice[n], "enrichedAt") /\ twice[n].enrichedAt = now

\* a record enriched at time 1 and again at time 2: status is overwritten by
\* the additional field both times, enrichedAt moves on
C31_Witness ==
    /\ StepReturned("enrich")
    /\ Has(lastOp.args, "first")
    /\ now = 2
    /\ lastOp.args.first = <<[method |-> "GET", status |-> "200"]>>
    /\ lastOp.args.data =
            <<[method |-> "GET", status |-> "done", source |-> "etl", enrichedAt |-> 1]>>
    /\ lastOp.value.value =
            <<[method |-> "GET", status |-> "done", source |-> "etl", enrichedAt |-> 2]>>

(***************************************************************************)
(* The control endpoint of the ETL route.                                  *)
(***************************************************************************)
\* a call of executeJob was made in the step: a frame came into being
ExecutionTriggered == \E e \in ExecIds : ~InFlight(e) /\ execs'[e].pc # "idle"

\* C32: PATCH triggers an execution only for a start request on a stored job
\* whose status is pending; a start request for a job whose status is
\* running, completed, failed or cancelled is answered 400 and triggers no
\* execution and changes nothing; a start or cancel request for an id that is
\* not stored is answered 404 and changes no state of the engine.
C32_StartOnlyPendingJobs ==
    [][lastOp'.op = "PATCH" /\ lastOp' # lastOp =>
        LET jobId == lastOp'.jobId
            action == lastOp'.value.action
        IN /\ ExecutionTriggered =>
                /\ action = "start"
                /\ jobId \in DOMAIN jobs
                /\ jobs[jobId].status = "pending"
           /\ action = "start" /\ jobId \in DOMAIN jobs
                /\ jobs[jobId].status \in {"running", "completed", "failed", "cancelled"} =>
                    /\ lastOp'.ret = "400"
                    /\ ~ExecutionTriggered
                    /\ UNCHANGED <<jobs, activeJobs, execs>>
           /\ action \in {"start", "cancel"} /\ jobId \notin DOMAIN jobs =>
                    /\ lastOp'.ret = "404"
                    /\ UNCHANGED <<jobs, activeJobs, execs>>]_vars

\* a start request for a completed job has been turned down
C32_Witness ==
    /\ lastOp.op = "PATCH"
    /\ lastOp.value.action = "start"
    /\ lastOp.ret = "400"
    /\ lastOp.jobId \in DOMAIN jobs
    /\ jobs[lastOp.jobId].status = "completed"
    /\ lastOp.jobId \notin activeJobs

(***************************************************************************)
(* The running flag, the percentage, the error and the counters of a job.  *)
(***************************************************************************)
\* C33: in every state the id of a job is in the active-job set exactly when
\* the job is stored with status running, and isJobRunning answers just that.
C33_RunningFlagMatchesStatus ==
    /\ \A jobId \in JobIds :
            jobId \in activeJobs <=> jobId \in DOMAIN jobs /\ jobs[jobId].status = "running"
    /\ lastOp.op = "isJobRunning" =>
            (lastOp.ret = "true"
                <=> lastOp.jobId \in DOMAIN jobs /\ jobs[lastOp.jobId].status = "running")

\* isJobRunning answers true for a job that was cancelled and started again
\* while its cancelled execution is still suspended
C33_Witness ==
    /\ lastOp = Answer("isJobRunning", 1, "true")
    /\ jobs[1].status = "running"
    /\ \A e \in ExecIds : execs[e].jobId = 1 /\ InFlight(e)

\* C34: the percentage of a job's progress is 0 or 100, and it is 100 only
\* while the status of the job is completed.
C34_PercentageFollowsStatus ==
    \A jobId \in DOMAIN jobs :
        jobs[jobId].progress # Undefined =>
            /\ jobs[jobId].progress.percentage \in {0, 100}
            /\ jobs[jobId].progress.percentage = 100 => jobs[jobId].status = "completed"

\* C35: a job whose status is completed has no error set.
C35_CompletedJobHasNoError ==
    \A jobId \in DOMAIN jobs :
        jobs[jobId].status = "completed" => jobs[jobId].error = NoError

\* C36: in every state the progress of a job has successfulRecords <=
\* processedRecords <= totalRecords and failedRecords = 0.
C36_CountersAreOrdered ==
    \A jobId \in DOMAIN jobs :
        jobs[jobId].progress # Undefined =>
            /\ jobs[jobId].progress.successfulRecords <= jobs[jobId].progress.processedRecords
            /\ jobs[jobId].progress.processedRecords <= jobs[jobId].progress.totalRecords
            /\ jobs[jobId].progress.failedRecords = 0

(***************************************************************************)
(* Admin dispatcher: bulk operations.                                      *)
(***************************************************************************)
MaxBulk == 2
MaxTargets == 2

BulkIds == 1..MaxBulk
TargetIds == {"t1", "t2"}
BulkTypes == {"delete", "update", "export", "transform"}
ParameterTypes == {"webhook", "request", "other"}

\* the argument of executeBulkOperation
BulkArguments ==
    {[type |-> type, parameters |-> [type |-> parameterType], targets |-> targets] :
        type \in BulkTypes, parameterType \in ParameterTypes,
        targets \in SeqsUpTo(TargetIds, MaxTargets)}

\* the operation object executeBulkOperation builds
NewBulkOperation(operationId, operation, time) ==
    [id |-> operationId,
     type |-> operation.type,
     parameters |-> operation.parameters,
     targets |-> operation.targets,
     createdAt |-> time,
     status |-> "pending",
     progress |-> [total |-> Len(operation.targets), completed |-> 0, failed |-> 0],
     results |-> <<>>,
     completedAt |-> NoTime]

IdleBulk == [pc |-> "idle", i |-> 0]

\* the storage call the switch makes first for a target, "none" when it makes none
FirstCall(operation) ==
    IF operation.type = "delete" /\ operation.parameters.type = "webhook"
    THEN "deleteWebhookConfig"
    ELSE IF operation.type = "delete" /\ operation.parameters.type = "request"
    THEN "deleteRequest"
    ELSE IF operation.type = "update" /\ operation.parameters.type = "webhook"
    THEN "getWebhookConfig"
    ELSE "none"

\* what success holds after a switch that awaited nothing
SuccessWithoutCall(operation) == operation.type \in {"export", "transform"}

\* results.push and the counter the result moves, counting every failure as none
Recorded_FailureNotCounted(operation, targetId, success, error) ==
    [operation EXCEPT
        !.results = Append(@, [id |-> targetId, success |-> success, error |-> error]),
        !.progress.completed = IF success THEN @ + 1 ELSE @]

\* results.push and the counter the result moves, in the try and in the catch
Recorded(operation, targetId, success, error) ==
    [operation EXCEPT
        !.results = Append(@, [id |-> targetId, success |-> success, error |-> error]),
        !.progress.completed = IF success THEN @ + 1 ELSE @,
        !.progress.failed = IF success THEN @ ELSE @ + 1]

\* the statements after the loop
BulkCompleted(operation, time) ==
    [operation EXCEPT !.status = "completed", !.completedAt = time]

\* the loop from target i on, up to its next await or past its end
RECURSIVE RunTargets(_, _, _)
RunTargets(operation, i, time) ==
    IF i > Len(operation.targets)
    THEN [operation |-> BulkCompleted(operation, time), frame |-> IdleBulk]
    ELSE IF FirstCall(operation) # "none"
    THEN [operation |-> operation, frame |-> [pc |-> FirstCall(operation), i |-> i]]
    ELSE RunTargets(Recorded(operation, operation.targets[i],
                             SuccessWithoutCall(operation), NoError),
                    i + 1, time)

\* the frame of operationId goes on with what RunTargets yields
BulkContinues(operationId, run) ==
    /\ bulkOperations' = MapSet(bulkOperations, operationId, run.operation)
    /\ bulkExecs' = MapSet(bulkExecs, operationId, run.frame)

\* executeBulkOperation, with executeBulkOperationAsync up to its first await
executeBulkOperation(operation) ==
    LET operationId == Cardinality(DOMAIN bulkOperations) + 1
        bulkOperation == NewBulkOperation(operationId, operation, now)
    IN /\ operationId \in BulkIds
       /\ bulkOperations' = MapSet(bulkOperations, operationId,
                                   [bulkOperation EXCEPT !.status = "running"])
       /\ bulkExecs' = MapSet(bulkExecs, operationId, [pc |-> "getStorageManager", i |-> 0])
       /\ lastOp' = Answer("executeBulkOperation", operationId, "returned")
       /\ UNCHANGED <<jobs, activeJobs, execs, now, handlers, savedRequests>>

\* await getStorageManager() resolves: the loop starts
bulkStorageManagerReturns(operationId) ==
    /\ operationId \in DOMAIN bulkExecs
    /\ bulkExecs[operationId].pc = "getStorageManager"
    /\ BulkContinues(operationId, RunTargets(bulkOperations[operationId], 1, now))
    /\ lastOp' = Answer("getStorageManager", operationId, "returned")
    /\ UNCHANGED <<jobs, activeJobs, execs, now, handlers, savedRequests>>

\* await getStorageManager() rejects: the catch of executeBulkOperation
bulkStorageManagerThrows(operationId) ==
    /\ operationId \in DOMAIN bulkExecs
    /\ bulkExecs[operationId].pc = "getStorageManager"
    /\ bulkOperations' = [bulkOperations EXCEPT ![operationId].status = "failed"]
    /\ bulkExecs' = MapSet(bulkExecs, operationId, IdleBulk)
    /\ lastOp' = Answer("getStorageManager", operationId, "thrown")
    /\ UNCHANGED <<jobs, activeJobs, execs, now, handlers, savedRequests>>

\* what the storage call a frame waits for can answer
BulkOutcomes(pc) ==
    IF pc \in {"deleteWebhookConfig", "deleteRequest"} THEN {"true", "false", "thrown"}
    ELSE IF pc = "getWebhookConfig" THEN {"config", "undefined", "thrown"}
    ELSE IF pc = "saveWebhookConfig" THEN {"returned", "thrown"}
    ELSE {}

\* the storage call for target i settles: the result is recorded and the loop goes on
bulkTargetSettles(operationId, outcome) ==
    /\ operationId \in DOMAIN bulkExecs
    /\ outcome \in BulkOutcomes(bulkExecs[operationId].pc)
    /\ LET operation == bulkOperations[operationId]
           i == bulkExecs[operationId].i
           targetId == operation.targets[i]
       IN IF outcome = "config"
          THEN /\ bulkExecs' = [bulkExecs EXCEPT ![operationId].pc = "saveWebhookConfig"]
               /\ UNCHANGED bulkOperations
          ELSE BulkContinues(operationId,
                   RunTargets(Recorded(operation, targetId,
                                       outcome \in {"true", "returned"},
                                       IF outcome = "thrown" THEN "message" ELSE NoError),
                              i + 1, now))
    /\ lastOp' = Answer(bulkExecs[operationId].pc, operationId, outcome)
    /\ UNCHANGED <<jobs, activeJobs, execs, now, handlers, savedRequests>>

NextBulk ==
    \/ \E operation \in BulkArguments : executeBulkOperation(operation)
    \/ \E operationId \in BulkIds : bulkStorageManagerReturns(operationId)
    \/ \E operationId \in BulkIds : bulkStorageManagerThrows(operationId)
    \/ \E operationId \in BulkIds,
          outcome \in {"true", "false", "thrown", "config", "undefined", "returned"} :
          bulkTargetSettles(operationId, outcome)

SpecBulk == Init /\ [][NextBulk]_vars

\* the call of executeBulkOperationAsync for operationId is over
BulkEnded(operationId) == bulkExecs[operationId].pc = "idle"

\* the frame of operationId waits for the storage call of one of its targets
BetweenTargets(operationId) ==
    bulkExecs[operationId].pc \notin {"idle", "getStorageManager"}

\* the counters, the results and the targets of every operation agree, every
\* earlier target has its result, and End holds of every operation that is over
BulkAccounts(End(_)) ==
    \A operationId \in DOMAIN bulkOperations :
        LET operation == bulkOperations[operationId]
            progress == operation.progress
        IN /\ progress.completed + progress.failed = Len(operation.results)
           /\ Len(operation.results) <= progress.total
           /\ progress.total = Len(operation.targets)
           /\ \A k \in 1..Len(operation.results) :
                operation.results[k].id = operation.targets[k]
           /\ BetweenTargets(operationId) =>
                /\ bulkExecs[operationId].i = Len(operation.results) + 1
                /\ bulkExecs[operationId].i <= progress.total
                /\ operation.status = "running"
           /\ BulkEnded(operationId) => End(operation)

EndsCompleted(operation) ==
    /\ operation.status = "completed"
    /\ operation.progress.completed + operation.progress.failed = operation.progress.total

EndsCompletedOrFailedEarly(operation) ==
    \/ EndsCompleted(operation)
    \/ /\ operation.status = "failed"
       /\ operation.results = <<>>
       /\ operation.progress.completed + operation.progress.failed = 0

\* C37: for every bulk operation, at every point between targets, completed +
\* failed = number of results <= total = number of targets, the results follow
\* the target order and a failed target does not stop the later ones; an
\* operation that is over has status completed and completed + failed = total.
C37_BulkOperationEndsCompleted == BulkAccounts(EndsCompleted)

\* C37 as amended: the same between targets; an operation that is over either
\* has status completed with completed + failed = total, or has status failed
\* with no result at all (the storage manager could not be obtained).
C37_BulkOperationAccounts == BulkAccounts(EndsCompletedOrFailedEarly)

\* an operation over two targets is over, completed, its first target failed
\* with an error and its second succeeded
C37_Witness ==
    \E operationId \in DOMAIN bulkOperations :
        /\ BulkEnded(operationId)
        /\ bulkOperations[operationId].status = "completed"
        /\ bulkOperations[operationId].progress = [total |-> 2, completed |-> 1, failed |-> 1]
        /\ Len(bulkOperations[operationId].results) = 2
        /\ bulkOperations[operationId].results[1] =
              [id |-> bulkOperations[operationId].targets[1], success |-> FALSE,
               error |-> "message"]
        /\ bulkOperations[operationId].results[2].success

(***************************************************************************)
(* Webhook route: handleRequest.                                           *)
(***************************************************************************)
MaxHandlers == 2

\* the bounds of the quantifier in /^[a-zA-Z0-9]{6,32}$/
MinIdLength == 6
MaxIdLength == 32

\* characters of the class [a-zA-Z0-9]; "-" and "_" stand for those outside of it
Alphanumeric == {"a", "Z", "0"}

\* a path segment of n characters c
Repeat(c, n) == [k \in 1..n |-> c]

\* first path segments: too short, shortest, mixed, longest, too long, not alphanumeric
WebhookIds ==
    {Repeat("a", MinIdLength - 1), Repeat("a", MinIdLength),
     <<"Z", "0">> \o Repeat("a", MinIdLength - 2),
     Repeat("0", MaxIdLength), Repeat("0", MaxIdLength + 1),
     Repeat("a", MinIdLength - 1) \o <<"-">>,
     <<"_">> \o Repeat("a", MinIdLength)}

\* context.params.params: no segment, the id alone, the id and an extra path
SegmentLists ==
    {<<>>} \cup {<<webhookId>> : webhookId \in WebhookIds}
           \cup {<<webhookId, <<"a">> >> : webhookId \in WebhookIds}

RouteHeaders == {[h1 |-> <<>>], [h1 |-> <<>>, userAgent |-> <<"curl", "7">>]}

\* /^[a-zA-Z0-9]{6,32}$/.test(webhookId)
ValidWebhookId(webhookId) ==
    /\ Len(webhookId) >= MinIdLength
    /\ Len(webhookId) <= MaxIdLength
    /\ \A k \in 1..Len(webhookId) : webhookId[k] \in Alphanumeric

\* the webhookRequest object
CapturedRequest(requestId, call, body, time) ==
    [id |-> requestId,
     webhookId |-> call.allSegments[1],
     method |-> call.method,
     path |-> call.allSegments,
     extraPath |-> Tail(call.allSegments),
     headers |-> call.headers,
     body |-> body,
     timestamp |-> time,
     ip |-> "unknown",
     userAgent |-> IF Has(call.headers, "userAgent") /\ call.headers.userAgent # <<>>
                   THEN call.headers.userAgent ELSE <<"unknown">>,
     contentType |-> <<"unknown">>]

\* a call of handleRequest: where it stands, what it was given, what it answered
Handler(call, pc, status, record, storage) ==
    [call |-> call, pc |-> pc, status |-> status, record |-> record, storage |-> storage]

\* the catch of the storage block, answering success
StorageErrorStatus_Success(storageError) == "200"

\* the catch of the storage block: 503 for a D1 error, 500 otherwise
StorageErrorStatus(storageError) == IF storageError = "d1" THEN "503" ELSE "500"

\* handleRequest up to its first await, or to its 400
handleRequest(allSegments, method, headers) ==
    LET call == [allSegments |-> allSegments, method |-> method, headers |-> headers]
        h == Len(handlers) + 1
    IN /\ h <= MaxHandlers
       /\ IF Len(allSegments) < 1 \/ ~ValidWebhookId(allSegments[1])
          THEN /\ handlers' = Append(handlers, Handler(call, "done", "400", [id |-> 0], "none"))
               /\ lastOp' = Answer("handleRequest", h, "400")
          ELSE /\ handlers' = Append(handlers,
                                     Handler(call, "parseRequestBody", "", [id |-> 0], "none"))
               /\ lastOp' = Answer("handleRequest", h, "started")
       /\ UNCHANGED <<jobs, activeJobs, execs, now, bulkOperations, bulkExecs, savedRequests>>

\* parseRequestBody resolves (it catches its own errors); the record is built,
\* getCloudflareContext() returns or throws, getStorageManager is awaited
parseRequestBodyReturns(h, body, context) ==
    /\ h \in DOMAIN handlers
    /\ handlers[h].pc = "parseRequestBody"
    /\ LET record == CapturedRequest(h, handlers[h].call, body, now)
       IN IF context = "thrown"
          THEN /\ handlers' = [handlers EXCEPT ![h] =
                                 Handler(@.call, "done", StorageErrorStatus("error"), record, "error")]
               /\ lastOp' = Answer("handleRequest", h, StorageErrorStatus("error"))
          ELSE /\ handlers' = [handlers EXCEPT ![h] =
                                 Handler(@.call, "getStorageManager", "", record, "none")]
               /\ lastOp' = Answer("parseRequestBody", h, "returned")
    /\ UNCHANGED <<jobs, activeJobs, execs, now, bulkOperations, bulkExecs, savedRequests>>

StorageOutcomes == {"returned", "d1", "error"}

\* await getStorageManager(cloudflareContext) settles
routeStorageManagerSettles(h, outcome) ==
    /\ h \in DOMAIN handlers
    /\ handlers[h].pc = "getStorageManager"
    /\ IF outcome = "returned"
       THEN /\ handlers' = [handlers EXCEPT ![h].pc = "saveRequest"]
            /\ lastOp' = Answer("getStorageManager", h, "returned")
       ELSE /\ handlers' = [handlers EXCEPT ![h] =
                              Handler(@.call, "done", StorageErrorStatus(outcome), @.record, outcome)]
            /\ lastOp' = Answer("handleRequest", h, StorageErrorStatus(outcome))
    /\ UNCHANGED <<jobs, activeJobs, execs, now, bulkOperations, bulkExecs, savedRequests>>

\* await storageManager.saveRequest(webhookId, webhookRequest) settles
saveRequestSettles(h, outcome) ==
    /\ h \in DOMAIN handlers
    /\ handlers[h].pc = "saveRequest"
    /\ IF outcome = "returned"
       THEN /\ savedRequests' = Append(savedRequests, handlers[h].record)
            /\ handlers' = [handlers EXCEPT ![h] =
                              Handler(@.call, "done", "200", @.record, "returned")]
            /\ lastOp' = Answer("handleRequest", h, "200")
       ELSE /\ UNCHANGED savedRequests
            /\ handlers' = [handlers EXCEPT ![h] =
                              Handler(@.call, "done", StorageErrorStatus(outcome), @.record, outcome)]
            /\ lastOp' = Answer("handleRequest", h, StorageErrorStatus(outcome))
    /\ UNCHANGED <<jobs, activeJobs, execs, now, bulkOperations, bulkExecs>>

NextRoute ==
    \/ \E allSegments \in SegmentLists, method \in {"GET", "POST"}, headers \in RouteHeaders :
          handleRequest(allSegments, method, headers)
    \/ \E h \in 1..MaxHandlers, body \in {"text", "[Error parsing body]"},
          context \in {"returned", "thrown"} :
          parseRequestBodyReturns(h, body, context)
    \/ \E h \in 1..MaxHandlers, outcome \in StorageOutcomes :
          routeStorageManagerSettles(h, outcome)
    \/ \E h \in 1..MaxHandlers, outcome \in StorageOutcomes : saveRequestSettles(h, outcome)

SpecRoute == Init /\ [][NextRoute]_vars

\* the record handler h captured is among the saved ones
Saved(h) == \E k \in 1..Len(savedRequests) : savedRequests[k] = handlers[h].record

\* some saved record came from handler h
SavedFrom(h) == \E k \in 1..Len(savedRequests) : savedRequests[k].id = h

\* C38: the webhook endpoint answers 200 only if the captured record was saved;
\* a request whose webhook id is missing or not 6 to 32 alphanumeric characters
\* is answered 400 and nothing of it is saved; a storage failure is answered
\* 500 or 503, never 200.
C38_SuccessOnlyWhenSaved ==
    \A h \in DOMAIN handlers :
        LET allSegments == handlers[h].call.allSegments
            webhookId == allSegments[1]
        IN /\ handlers[h].status = "200" => Saved(h)
           /\ (allSegments = <<>>
               \/ Len(webhookId) < 6 \/ Len(webhookId) > 32
               \/ \E k \in 1..Len(webhookId) : webhookId[k] \in {"-", "_"}) =>
                 /\ handlers[h].pc = "done"
                 /\ handlers[h].status = "400"
                 /\ ~SavedFrom(h)
           /\ handlers[h].storage \in {"d1", "error"} =>
                 /\ handlers[h].pc = "done"
                 /\ handlers[h].status \in {"500", "503"}
                 /\ ~SavedFrom(h)

\* one request was answered 200 after its record was saved, another whose save
\* failed was answered 500
C38_Witness ==
    /\ Len(handlers) = 2
    /\ handlers[1].status = "200" /\ Saved(1)
    /\ handlers[2].storage = "error" /\ handlers[2].status = "500"
    /\ handlers[2].record.id = 2

====
